---- MODULE Spec2Model ----
(***************************************************************************)
(* Image_to_SVG: the vectorization backend and its callers.                *)
(*                                                                         *)
(* Part 1  binary cleanup pipeline (applyCleanupOptions, applyErosion,     *)
(*         removeEdgeConnectedRegions, removeSmallRegions)                 *)
(*                                                                         *)
(* A pixel buffer is a function from 0..width*height-1 to sample values,   *)
(* indexed idx = y*width + x as in the source.  0 is black, 255 is white.  *)
(***************************************************************************)
EXTENDS Integers, Sequences, FiniteSets, TLC

VARIABLES
    width,      \* image width passed to applyCleanupOptions
    height,     \* image height passed to applyCleanupOptions
    settings,   \* the cleanup fields of VectorizationSettings
    inputs,     \* the grayscale buffer each run of the pipeline was given
    pixels,     \* `pixels` of applyCleanupOptions: the current buffer
    cpc,        \* position inside applyCleanupOptions
    stepsRun,   \* the steps that ran in this run, in order
    bufs,       \* the buffer each step of stepsRun read and the one it wrote
    iterBufs,   \* `current` of applyErosion after each iteration (index 1: the copy)
    argAfter,   \* the buffer each step of stepsRun was handed, as it is when the step is over
    qPixels,    \* kMeansQuantize: the RGBA pixel array passed in
    qK,         \* kMeansQuantize: k
    qUseLab,    \* kMeansQuantize: useLab
    qpc,        \* "call" before kMeansQuantize runs, "ret" after, "idle" when unused
    qResult,    \* what kMeansQuantize returned
    lloyd,      \* the k-means loop of kMeansQuantize, one round at a time
    palette,        \* processMulticolor: the palette kMeansQuantize returned
    sortedPalette,  \* processMulticolor: sortColorsByLuminance(palette)
    paletteMap,     \* processMulticolor: old palette index -> sorted index (0-based)
    colorIndex,     \* processMulticolor: the loop counter
    allLayerPaths,  \* processMulticolor: the layers collected so far
    traces,         \* what potraceTrace did for each colour so far
    mpc,            \* "call", "loop", "ret" (returned), "thrown" (rejected), "idle"
    mcLayers,       \* the layers processMulticolor returned
    mcSettings,     \* processMulticolor: the settings passed in
    mcWidth,        \* processMulticolor: width
    mcHeight,       \* processMulticolor: height
    mcOpts,         \* the options each potraceTrace call was given
    mcSvg,          \* the svg processMulticolor returned
    mcAssignments,  \* processMulticolor: the assignments kMeansQuantize returned
    mcMasks,        \* processMulticolor: the binaryData built for each colour so far
    req,            \* the POST /api/convert request: file, settings field
    rpc,            \* route: "none", "recv", "converting", "done", "idle"
    convertCalls,   \* the settings vectorizer.convert has been invoked with
    convOutcome,    \* "none", "completed", "threw"
    response,       \* what the route sent: [status, body]
    conversionStatus,  \* App state.conversionStatus
    appError,       \* App state.error
    svgData,        \* App state.svgData
    cvImage,        \* Vectorizer.convert: the decoded RGBA pixels of imageBuffer
    cvWidth,        \* Vectorizer.convert: width
    cvHeight,       \* Vectorizer.convert: height
    cvSettings,     \* Vectorizer.convert: settings
    cvpc,           \* "call", "multi" (inside processMulticolor), "ret", "thrown", "idle"
    cvOpts,         \* the options processSilhouette / processLineart gave potraceTrace
    cvResult,       \* what convert resolved with: [svg, layers, stats]
    silTraced,      \* processSilhouette: the buffer handed to potraceTrace, and how it was made
    dim,            \* one call of calculateOutputDimensions: arguments, position, result
    simp,           \* one call of simplifyPath: arguments, position, result
    smooth,         \* one call of smoothPath: arguments, position, the path after each round
    jm,             \* the Jimp-based processMulticolor: settings, size, per-colour traces, layers
    hist,           \* the useHistory hook: its history state and the calls made
    app             \* the frontend App: its state and the conversions in flight

cleanupVars == <<width, height, settings, inputs, pixels, cpc, stepsRun, bufs, iterBufs, argAfter>>

quantVars == <<qPixels, qK, qUseLab, qpc, qResult>>

multiVars == <<palette, sortedPalette, paletteMap, colorIndex, allLayerPaths, traces, mpc, mcLayers,
               mcSettings, mcWidth, mcHeight, mcOpts, mcSvg, mcAssignments, mcMasks>>

routeVars == <<req, rpc, convertCalls, convOutcome, response, conversionStatus, appError, svgData>>

lloydVars == <<lloyd>>

convVars == <<cvImage, cvWidth, cvHeight, cvSettings, cvpc, cvOpts, cvResult, silTraced>>

dimVars == <<dim>>

simpVars == <<simp>>

smoothVars == <<smooth>>

jimpVars == <<jm>>

histVars == <<hist>>

appVars == <<app>>

vars == <<cleanupVars, quantVars, multiVars, routeVars, lloydVars, convVars, dimVars, simpVars,
          smoothVars, jimpVars, histVars, appVars>>

(***************************************************************************)
(* Bounds of the model.                                                    *)
(***************************************************************************)
MaxW == 3          \* SpecEdge: every binary image up to MaxW x MaxH
MaxH == 3
MaxSparseW == 5    \* SpecErode, SpecSmall, Spec: images up to MaxSparseW x MaxSparseH
MaxSparseH == 5    \*   that differ from one colour in at most MaxOdd pixels
MaxOdd == 2
PipeOdd == 1       \* Spec: at most PipeOdd white pixels
MaxTwiceW == 2     \* SpecTwice: every binary image up to MaxTwiceW x MaxTwiceH
MaxTwiceH == 2
DarkGrey == 100    \* Spec: the value of a dark input sample (below the default threshold)
MaxRuns == 2       \* SpecTwice: the pipeline is applied to its own output once
MaxQPixels == 3    \* SpecQuant: pixel arrays of 1..MaxQPixels pixels
MaxK == 3          \* SpecQuant: k in 1..MaxK
MaxColours == 3    \* SpecMulti: palettes of 1..MaxColours entries
MaxTracePaths == 2 \* SpecMulti: a trace yields 0..MaxTracePaths paths
MaxOverrides == 2  \* SpecRoute: settings objects replacing up to MaxOverrides defaults
MaxResultLayers == 1  \* SpecRoute: a completed conversion has 0..MaxResultLayers layers
MaxResultPaths == 1   \* SpecRoute: and 0..MaxResultPaths paths
MaxCvWidth == 2       \* SpecConvert: images of MaxCvWidth x 1 pixels
MaxSource == 4        \* SpecDim: source sizes 1..MaxSource
MaxPoints == 4        \* SpecSimp: paths of 0..MaxPoints points
MaxLloydPixels == 2   \* SpecLloyd: samples of 1..MaxLloydPixels pixels
MaxLloydK == 2        \* SpecLloyd: k in 1..MaxLloydK
MaxSmoothPoints == 4      \* SpecSmooth: paths of 0..MaxSmoothPoints points
MaxSmoothIterations == 2  \* SpecSmooth: iterations -1..MaxSmoothIterations
MaxJimpPaths == 2         \* SpecJimp: a trace yields 0..MaxJimpPaths paths
MaxSelects == 3           \* SpecApp: images selected
MaxGenerates == 3         \* SpecApp: conversions started
MaxCalls == 4             \* SpecHist: the hook's functions are called MaxCalls times

(***************************************************************************)
(* Program constants.                                                      *)
(***************************************************************************)
BLACK == 0
WHITE == 255
DefaultThreshold == 128
MaxThreshold == 255        \* threshold?: number; // For silhouette mode (0-255)
MaxRegionTenths == 100     \* minRegionSize: 0-10 percent, in tenths of a percent
MaxErosionLevel == 5       \* erosionLevel: 0-5
AlphaCut == 128            \* pixels.filter(p => p.a > 128)
MAX_SAMPLE_SIZE == 50000
DefaultMaxIterations == 20 \* maxIterations: number = 20
BadRequest == 400
ServerError == 500
OK == 200
WARN_PATHS == 2000
MaxLayersNoWarning == 8    \* result.layers.length > 8
MaxDetail == 100           \* detail: number; // 0-100
DefaultMaxHistory == 50    \* maxHistoryLength: number = 50
MinColorLayers == 2        \* colorLayers: 2-16 (validateSettings)

Idx(w, h) == 0 .. (w * h - 1)

BinaryBuffers(w, h) == [Idx(w, h) -> {BLACK, WHITE}]

BlackSet(buf) == {i \in DOMAIN buf : buf[i] = BLACK}

\* settings.threshold ?? 128 ; the optional field is <<>> or <<value>>
ThresholdOf(s) == IF s.threshold = <<>> THEN DefaultThreshold ELSE s.threshold[1]

(***************************************************************************)
(* Step 1 and 2 of applyCleanupOptions.                                    *)
(***************************************************************************)
\* mutant: `<=` for `<`
ApplyThresholdInclusive(buf, threshold) ==
    [i \in DOMAIN buf |-> IF buf[i] <= threshold THEN BLACK ELSE WHITE]

ApplyThreshold(buf, threshold) ==
    [i \in DOMAIN buf |-> IF buf[i] < threshold THEN BLACK ELSE WHITE]

ApplyInvert(buf) ==
    [i \in DOMAIN buf |-> IF buf[i] = BLACK THEN WHITE ELSE BLACK]

(***************************************************************************)
(* applyErosion.  One iteration: next starts white; an interior pixel is   *)
(* set black when its whole 3x3 neighbourhood in `current` is black.       *)
(***************************************************************************)
\* mutant: the kernel skips the pixel itself (dy = 0, dx = 0)
ErodeOnceSkipCentre(current, w, h) ==
    [idx \in DOMAIN current |->
        LET x == idx % w
            y == idx \div w
        IN  IF /\ y >= 1 /\ y < h - 1
               /\ x >= 1 /\ x < w - 1
               /\ \A dy \in -1 .. 1 : \A dx \in -1 .. 1 :
                      (dy = 0 /\ dx = 0) \/ current[(y + dy) * w + (x + dx)] = BLACK
            THEN BLACK
            ELSE WHITE]

ErodeOnce(current, w, h) ==
    [idx \in DOMAIN current |->
        LET x == idx % w
            y == idx \div w
        IN  IF /\ y >= 1 /\ y < h - 1
               /\ x >= 1 /\ x < w - 1
               /\ \A dy \in -1 .. 1 : \A dx \in -1 .. 1 :
                      current[(y + dy) * w + (x + dx)] = BLACK
            THEN BLACK
            ELSE WHITE]

\* <<current after 0 iterations (the copy), after 1, ..., after `iterations`>>
RECURSIVE ErosionIterations(_, _, _, _)
ErosionIterations(buf, w, h, iterations) ==
    IF iterations <= 0
    THEN <<buf>>
    ELSE LET before == ErosionIterations(buf, w, h, iterations - 1)
         IN  Append(before, ErodeOnce(before[Len(before)], w, h))

\* mutant: one iteration whatever `iterations` is (iterations >= 1)
applyErosionOnce(buf, w, h, iterations) ==
    LET all == ErosionIterations(buf, w, h, IF iterations >= 1 THEN 1 ELSE 0)
    IN  all[Len(all)]

applyErosion(buf, w, h, iterations) ==
    LET all == ErosionIterations(buf, w, h, iterations) IN all[Len(all)]

(***************************************************************************)
(* removeEdgeConnectedRegions.  floodFill is the source's explicit stack.  *)
(* One pass of its while loop (floodFillStep): pop, skip when out of       *)
(* bounds / visited / not black, else whiten and push the four neighbours. *)
(* f = [stack, result, visited].  A pixel is whitened at most once and     *)
(* each whitening pushes four entries, so the loop ends within             *)
(* 4*width*height + 1 passes.  floodFillLoop(f, span) runs up to `span`    *)
(* passes (a power of 8), as eight runs of span/8 one after the other, and *)
(* stops as soon as the stack is empty.                                    *)
(***************************************************************************)
\* the least power of 8 that is at least n (n <= 4096)
SpanFor(n) ==
    IF n <= 1 THEN 1 ELSE IF n <= 8 THEN 8 ELSE IF n <= 64 THEN 64
    ELSE IF n <= 512 THEN 512 ELSE 4096

floodFillStep(f, w, h) ==
    IF f.stack = <<>>
    THEN f
    ELSE LET top  == f.stack[Len(f.stack)]
             rest == SubSeq(f.stack, 1, Len(f.stack) - 1)
             x    == top[1]
             y    == top[2]
             idx  == y * w + x
         IN  IF x < 0 \/ x >= w \/ y < 0 \/ y >= h THEN [f EXCEPT !.stack = rest]
             ELSE IF f.visited[idx] # 0 THEN [f EXCEPT !.stack = rest]
             ELSE IF f.result[idx] # BLACK THEN [f EXCEPT !.stack = rest]
             ELSE [stack   |-> rest \o << <<x + 1, y>>, <<x - 1, y>>,
                                          <<x, y + 1>>, <<x, y - 1>> >>,
                   result  |-> [f.result EXCEPT ![idx] = WHITE],
                   visited |-> [f.visited EXCEPT ![idx] = 1]]

RECURSIVE floodFillLoop(_, _, _, _)
floodFillLoop(f, span, w, h) ==
    IF f.stack = <<>> THEN f
    ELSE IF span <= 1 THEN floodFillStep(f, w, h)
    ELSE LET f1 == floodFillLoop(f, span \div 8, w, h)
             f2 == floodFillLoop(f1, span \div 8, w, h)
             f3 == floodFillLoop(f2, span \div 8, w, h)
             f4 == floodFillLoop(f3, span \div 8, w, h)
             f5 == floodFillLoop(f4, span \div 8, w, h)
             f6 == floodFillLoop(f5, span \div 8, w, h)
             f7 == floodFillLoop(f6, span \div 8, w, h)
             f8 == floodFillLoop(f7, span \div 8, w, h)
         IN  <<f1, f2, f3, f4, f5, f6, f7, f8>>[8]

\* st = [result, visited], shared by all the calls of one removeEdgeConnectedRegions
floodFill(startX, startY, st, w, h) ==
    LET f == floodFillLoop([stack   |-> << <<startX, startY>> >>,
                            result  |-> st.result,
                            visited |-> st.visited],
                           SpanFor(4 * w * h + 1), w, h)
    IN  [result |-> f.result, visited |-> f.visited]

FillIfBlack(st, x, y, w, h) ==
    IF st.result[y * w + x] = BLACK THEN floodFill(x, y, st, w, h) ELSE st

\* mutant: the right edge is not scanned
EdgeVisitLeftOnly(k, w, h) ==
    IF k <= 2 * w
    THEN <<(k - 1) \div 2, IF k % 2 = 1 THEN 0 ELSE h - 1>>
    ELSE <<0, (k - 2 * w - 1) \div 2>>

\* the k-th border pixel the two edge loops look at, k in 1 .. 2*width + 2*height:
\*   for (x = 0; x < width; x++)  { (x, 0); (x, height - 1) }
\*   for (y = 0; y < height; y++) { (0, y); (width - 1, y) }
EdgeVisit(k, w, h) ==
    IF k <= 2 * w
    THEN <<(k - 1) \div 2, IF k % 2 = 1 THEN 0 ELSE h - 1>>
    ELSE <<IF (k - 2 * w) % 2 = 1 THEN 0 ELSE w - 1, (k - 2 * w - 1) \div 2>>

\* the edge loops from visit k on, `span` visits (a power of 8)
RECURSIVE EdgeLoops(_, _, _, _, _)
EdgeLoops(k, span, st, w, h) ==
    IF k > 2 * w + 2 * h THEN st
    ELSE IF span <= 1
    THEN FillIfBlack(st, EdgeVisit(k, w, h)[1], EdgeVisit(k, w, h)[2], w, h)
    ELSE LET d  == span \div 8
             s1 == EdgeLoops(k, d, st, w, h)
             s2 == EdgeLoops(k + d, d, s1, w, h)
             s3 == EdgeLoops(k + 2 * d, d, s2, w, h)
             s4 == EdgeLoops(k + 3 * d, d, s3, w, h)
             s5 == EdgeLoops(k + 4 * d, d, s4, w, h)
             s6 == EdgeLoops(k + 5 * d, d, s5, w, h)
             s7 == EdgeLoops(k + 6 * d, d, s6, w, h)
             s8 == EdgeLoops(k + 7 * d, d, s7, w, h)
         IN  <<s1, s2, s3, s4, s5, s6, s7, s8>>[8]

removeEdgeConnectedRegions(buf, w, h) ==
    LET st0 == [result |-> buf, visited |-> [i \in DOMAIN buf |-> 0]]
    IN  EdgeLoops(1, SpanFor(2 * w + 2 * h), st0, w, h).result

\* mutant: no copy (const result = pixels), the fill writes into the argument
removeEdgeConnectedRegionsInPlace(buf, w, h) ==
    [pixels |-> removeEdgeConnectedRegions(buf, w, h),
     result |-> removeEdgeConnectedRegions(buf, w, h)]

\* The two buffers of a call once it is over: `pixels`, the argument, and
\* `result`.  result = new Uint8Array(pixels) is a copy, and floodFill reads
\* and writes result only.
removeEdgeConnectedRegionsCall(buf, w, h) ==
    [pixels |-> buf, result |-> removeEdgeConnectedRegions(buf, w, h)]

(***************************************************************************)
(* removeSmallRegions.  minSizePercent is carried in tenths of a percent   *)
(* (the slider's step is 0.1), so                                          *)
(*   Math.floor(totalPixels * minSizePercent / 100)                        *)
(* is (totalPixels * tenths) \div 1000.                                    *)
(***************************************************************************)
MinPixels(w, h, tenths) == ((w * h) * tenths) \div 1000

\* one pass of floodFillLabel's while loop; f = [stack, labels, size]
floodFillLabelStep(f, buf, label, w, h) ==
    IF f.stack = <<>>
    THEN f
    ELSE LET top  == f.stack[Len(f.stack)]
             rest == SubSeq(f.stack, 1, Len(f.stack) - 1)
             x    == top[1]
             y    == top[2]
             idx  == y * w + x
         IN  IF x < 0 \/ x >= w \/ y < 0 \/ y >= h THEN [f EXCEPT !.stack = rest]
             ELSE IF f.labels[idx] # 0 THEN [f EXCEPT !.stack = rest]
             ELSE IF buf[idx] # BLACK THEN [f EXCEPT !.stack = rest]
             ELSE [stack  |-> rest \o << <<x + 1, y>>, <<x - 1, y>>,
                                         <<x, y + 1>>, <<x, y - 1>> >>,
                   labels |-> [f.labels EXCEPT ![idx] = label],
                   size   |-> f.size + 1]

RECURSIVE floodFillLabelLoop(_, _, _, _, _, _)
floodFillLabelLoop(f, span, buf, label, w, h) ==
    IF f.stack = <<>> THEN f
    ELSE IF span <= 1 THEN floodFillLabelStep(f, buf, label, w, h)
    ELSE LET f1 == floodFillLabelLoop(f, span \div 8, buf, label, w, h)
             f2 == floodFillLabelLoop(f1, span \div 8, buf, label, w, h)
             f3 == floodFillLabelLoop(f2, span \div 8, buf, label, w, h)
             f4 == floodFillLabelLoop(f3, span \div 8, buf, label, w, h)
             f5 == floodFillLabelLoop(f4, span \div 8, buf, label, w, h)
             f6 == floodFillLabelLoop(f5, span \div 8, buf, label, w, h)
             f7 == floodFillLabelLoop(f6, span \div 8, buf, label, w, h)
             f8 == floodFillLabelLoop(f7, span \div 8, buf, label, w, h)
         IN  <<f1, f2, f3, f4, f5, f6, f7, f8>>[8]

\* returns [labels, size]
floodFillLabel(startX, startY, label, labels, buf, w, h) ==
    floodFillLabelLoop([stack |-> << <<startX, startY>> >>, labels |-> labels, size |-> 0],
                       SpanFor(4 * w * h + 1), buf, label, w, h)

\* the body of the labelling scan at pixel idx; lab = [labels, currentLabel, labelSizes]
LabelAt(idx, lab, buf, w, h) ==
    IF buf[idx] = BLACK /\ lab.labels[idx] = 0
    THEN LET label  == lab.currentLabel + 1
             filled == floodFillLabel(idx % w, idx \div w, label, lab.labels, buf, w, h)
         IN  [labels       |-> filled.labels,
              currentLabel |-> label,
              labelSizes   |-> lab.labelSizes @@ (label :> filled.size)]
    ELSE lab

\* for (y ...) for (x ...): the scan from pixel idx on, `span` pixels (a power of 8)
RECURSIVE LabelScan(_, _, _, _, _, _)
LabelScan(idx, span, lab, buf, w, h) ==
    IF idx >= w * h THEN lab
    ELSE IF span <= 1 THEN LabelAt(idx, lab, buf, w, h)
    ELSE LET d  == span \div 8
             l1 == LabelScan(idx, d, lab, buf, w, h)
             l2 == LabelScan(idx + d, d, l1, buf, w, h)
             l3 == LabelScan(idx + 2 * d, d, l2, buf, w, h)
             l4 == LabelScan(idx + 3 * d, d, l3, buf, w, h)
             l5 == LabelScan(idx + 4 * d, d, l4, buf, w, h)
             l6 == LabelScan(idx + 5 * d, d, l5, buf, w, h)
             l7 == LabelScan(idx + 6 * d, d, l6, buf, w, h)
             l8 == LabelScan(idx + 7 * d, d, l7, buf, w, h)
         IN  <<l1, l2, l3, l4, l5, l6, l7, l8>>[8]

LabelComponents(buf, w, h) ==
    LabelScan(0, SpanFor(w * h),
              [labels       |-> [i \in DOMAIN buf |-> 0],
               currentLabel |-> 0,
               labelSizes   |-> <<>>],
              buf, w, h)

\* the removal loop, given the labelling
RemoveLabelled(buf, lab, minPixels) ==
    [i \in DOMAIN buf |->
        IF lab.labels[i] # 0 /\ lab.labelSizes[lab.labels[i]] < minPixels
        THEN WHITE
        ELSE buf[i]]

removeSmallRegions(buf, w, h, tenths) ==
    LET lab == LabelComponents(buf, w, h)
    IN  <<lab, RemoveLabelled(buf, lab, MinPixels(w, h, tenths))>>[2]

(***************************************************************************)
(* applyCleanupOptions.  The result carries, beside the final buffer, the  *)
(* names of the steps that ran, the buffer each one read and wrote         *)
(* (bufs[i] -> bufs[i+1] for steps[i]), applyErosion's iterations, and    *)
(* what has become of the buffer each step was handed (args[i]): threshold *)
(* fills the new binaryPixels, invert rewrites pixels in place, the other  *)
(* three work on a copy.                                                   *)
(***************************************************************************)
Ran(acc, name, out, arg) ==
    [acc EXCEPT !.pixels = out,
                !.steps  = Append(acc.steps, name),
                !.bufs   = Append(acc.bufs, out),
                !.args   = Append(acc.args, arg)]

\* the steps of the pipeline, applied to the accumulated result
ThresholdStep(a, s) ==
    Ran(a, "threshold", ApplyThreshold(a.pixels, ThresholdOf(s)), a.pixels)

InvertStep(a, s) ==
    IF s.invert THEN Ran(a, "invert", ApplyInvert(a.pixels), ApplyInvert(a.pixels)) ELSE a

ErosionStep(a, s, w, h) ==
    IF s.erosionLevel > 0
    THEN [Ran(a, "erosion", applyErosion(a.pixels, w, h, s.erosionLevel), a.pixels)
             EXCEPT !.eroding = ErosionIterations(a.pixels, w, h, s.erosionLevel)]
    ELSE a

EdgeStep(a, s, w, h) ==
    IF s.removeEdgeRegions
    THEN LET call == removeEdgeConnectedRegionsCall(a.pixels, w, h)
         IN  Ran(a, "edge", call.result, call.pixels)
    ELSE a

SmallStep(a, s, w, h) ==
    IF s.minRegionSize > 0
    THEN Ran(a, "small", removeSmallRegions(a.pixels, w, h, s.minRegionSize), a.pixels)
    ELSE a

\* mutant: edge-region removal runs before erosion
applyCleanupOptionsEdgeFirst(raw, s, w, h) ==
    LET a0 == [pixels |-> raw, steps |-> <<>>, bufs |-> <<raw>>, eroding |-> <<>>,
               args |-> <<>>]
        a1 == ThresholdStep(a0, s)
        a2 == InvertStep(a1, s)
        a3 == EdgeStep(a2, s, w, h)
        a4 == ErosionStep(a3, s, w, h)
        a5 == SmallStep(a4, s, w, h)
    IN  <<a1, a2, a3, a4, a5>>[5]

\* threshold first, then invert, erosion, edge-region removal and small-region
\* removal, each if requested
applyCleanupOptions(raw, s, w, h) ==
    LET a0 == [pixels |-> raw, steps |-> <<>>, bufs |-> <<raw>>, eroding |-> <<>>,
               args |-> <<>>]
        a1 == ThresholdStep(a0, s)
        a2 == InvertStep(a1, s)
        a3 == ErosionStep(a2, s, w, h)
        a4 == EdgeStep(a3, s, w, h)
        a5 == SmallStep(a4, s, w, h)
    IN  <<a1, a2, a3, a4, a5>>[5]

(***************************************************************************)
(* The cleanup state machine: a caller hands applyCleanupOptions a buffer  *)
(* (Cleanup), and may hand its output back with the same settings          *)
(* (CleanupAgain).                                                         *)
(***************************************************************************)
Cleanup ==
    /\ cpc = "call"
    /\ LET r == applyCleanupOptions(pixels, settings, width, height)
       IN  /\ pixels'   = r.pixels
           /\ stepsRun' = r.steps
           /\ bufs'     = r.bufs
           /\ iterBufs' = r.eroding
           /\ argAfter' = r.args
    /\ cpc' = "ret"
    /\ UNCHANGED <<width, height, settings, inputs, quantVars, multiVars, routeVars,
                   lloydVars, convVars, dimVars, simpVars,
                   smoothVars, jimpVars, histVars, appVars>>

CleanupAgain ==
    /\ cpc = "ret"
    /\ Len(inputs) < MaxRuns
    /\ inputs' = Append(inputs, pixels)
    /\ cpc' = "call"
    /\ stepsRun' = <<>>
    /\ bufs' = <<>>
    /\ iterBufs' = <<>>
    /\ argAfter' = <<>>
    /\ UNCHANGED <<width, height, settings, pixels, quantVars, multiVars, routeVars,
                   lloydVars, convVars, dimVars, simpVars,
                   smoothVars, jimpVars, histVars, appVars>>

\* buffers of w*h samples that differ from `base` in at most k places
Sparse(w, h, base, odd, k) ==
    { [i \in Idx(w, h) |-> IF \E j \in 1 .. k : at[j] = i THEN odd ELSE base] :
        at \in [1 .. k -> -1 .. (w * h - 1)] }

CleanupSettings(thresholds, inverts, erosions, edges, regions) ==
    [threshold : thresholds, invert : inverts, erosionLevel : erosions,
     removeEdgeRegions : edges, minRegionSize : regions]

\* processMulticolor is not running
MultiIdle ==
    /\ palette = <<>>
    /\ sortedPalette = <<>>
    /\ paletteMap = <<>>
    /\ colorIndex = 0
    /\ allLayerPaths = <<>>
    /\ traces = <<>>
    /\ mpc = "idle"
    /\ mcLayers = <<>>
    /\ mcSettings = <<>>
    /\ mcWidth = 0
    /\ mcHeight = 0
    /\ mcOpts = <<>>
    /\ mcSvg = <<>>
    /\ mcAssignments = <<>>
    /\ mcMasks = <<>>

\* no request is being served
RouteIdle ==
    /\ req = <<>>
    /\ rpc = "idle"
    /\ convertCalls = <<>>
    /\ convOutcome = "none"
    /\ response = <<>>
    /\ conversionStatus = "idle"
    /\ appError = <<>>
    /\ svgData = <<>>

\* Vectorizer.convert is not running
ConvIdle ==
    /\ cvImage = <<>>
    /\ cvWidth = 0
    /\ cvHeight = 0
    /\ cvSettings = <<>>
    /\ cvpc = "idle"
    /\ cvOpts = <<>>
    /\ cvResult = <<>>
    /\ silTraced = <<>>

\* the k-means loop is not being stepped
LloydIdle == lloyd = <<>>

\* calculateOutputDimensions is not being called
DimIdle == dim = <<>>

\* simplifyPath is not being called
SimpIdle == simp = <<>>

LaterIdle == LloydIdle /\ ConvIdle /\ DimIdle /\ SimpIdle

\* smoothPath is not being called
SmoothIdle == smooth = <<>>

\* the Jimp-based processMulticolor is not running
JimpIdle == jm = <<>>

\* no component uses the useHistory hook
HistIdle == hist = <<>>

\* the frontend App is not mounted
AppIdle == app = <<>>

RestIdle == SmoothIdle /\ JimpIdle /\ HistIdle /\ AppIdle

\* kMeansQuantize is not running
QuantIdle ==
    /\ qPixels = <<>>
    /\ qK = 0
    /\ qUseLab = FALSE
    /\ qpc = "idle"
    /\ qResult = <<>>

InitCleanup(w, h, raw, s) ==
    /\ width = w
    /\ height = h
    /\ settings = s
    /\ inputs = <<raw>>
    /\ pixels = raw
    /\ cpc = "call"
    /\ stepsRun = <<>>
    /\ bufs = <<>>
    /\ iterBufs = <<>>
    /\ argAfter = <<>>
    /\ QuantIdle
    /\ MultiIdle
    /\ RouteIdle
    /\ LaterIdle
    /\ RestIdle

\* every step toggled, on white grayscale images with a few dark grey samples
Init ==
    \E w \in {MaxSparseW}, h \in {MaxSparseH} :
      \E raw \in Sparse(w, h, WHITE, DarkGrey, PipeOdd) :
        \E s \in CleanupSettings({<<>>}, BOOLEAN, 0 .. 2, BOOLEAN, {0, MaxRegionTenths}) :
          InitCleanup(w, h, raw, s)

Next == Cleanup

Spec == Init /\ [][Next]_vars

\* removeEdgeConnectedRegions alone, on every binary image
InitEdge ==
    \E w \in 1 .. MaxW, h \in 1 .. MaxH :
      \E raw \in BinaryBuffers(w, h) :
        \E s \in CleanupSettings({<<>>}, {FALSE}, {0}, {TRUE}, {0}) :
          InitCleanup(w, h, raw, s)

SpecEdge == InitEdge /\ [][Next]_vars

\* removeSmallRegions alone, for every slider value
InitSmall ==
    \E w \in {MaxSparseW}, h \in MaxSparseH - 1 .. MaxSparseH :
      \E raw \in Sparse(w, h, WHITE, BLACK, MaxOdd) :
        \E s \in CleanupSettings({<<>>}, {FALSE}, {0}, {FALSE}, 0 .. MaxRegionTenths) :
          InitCleanup(w, h, raw, s)

SpecSmall == InitSmall /\ [][Next]_vars

\* white images holding one black square of 3x3 pixels
BlackSquares(w, h) ==
    { [i \in Idx(w, h) |->
          IF /\ i % w >= x0 /\ i % w <= x0 + 2
             /\ i \div w >= y0 /\ i \div w <= y0 + 2
          THEN BLACK ELSE WHITE] : x0 \in 0 .. w - 3, y0 \in 0 .. h - 3 }

\* applyErosion alone, for every erosion level, on black images with a few
\* white pixels and on white images with one black 3x3 square
InitErode ==
    \E w \in MaxSparseW - 2 .. MaxSparseW, h \in MaxSparseH - 2 .. MaxSparseH :
      \E raw \in Sparse(w, h, BLACK, WHITE, MaxOdd) \cup BlackSquares(w, h) :
        \E s \in CleanupSettings({<<>>}, {FALSE}, 0 .. MaxErosionLevel, {FALSE}, {0}) :
          InitCleanup(w, h, raw, s)

SpecErode == InitErode /\ [][Next]_vars

\* threshold + invert, applied twice, for every threshold
InitTwice ==
    \E w \in 1 .. MaxTwiceW, h \in 1 .. MaxTwiceH :
      \E raw \in BinaryBuffers(w, h) :
        \E s \in CleanupSettings({<<>>} \cup {<<t>> : t \in 0 .. MaxThreshold},
                                 BOOLEAN, {0}, {FALSE}, {0}) :
          InitCleanup(w, h, raw, s)

NextTwice == Cleanup \/ CleanupAgain

SpecTwice == InitTwice /\ [][NextTwice]_vars

(***************************************************************************)
(* Part 2  colour quantization (colorUtils: kMeansQuantize,                *)
(*         initializeCentroids, colorDistanceWeighted, rgbToLab)           *)
(*                                                                         *)
(* A colour is [r, g, b], a pixel [r, g, b, a].  Arrays are sequences;     *)
(* palette indices (assignments) are 0-based as in the source, so          *)
(* assignment i names centroids[i + 1].                                    *)
(***************************************************************************)
RGB(r, g, b) == [r |-> r, g |-> g, b |-> b]
RGBOf(p) == [r |-> p.r, g |-> p.g, b |-> p.b]
White == RGB(255, 255, 255)

\* Math.round(sum / count) for sum >= 0, count > 0
RoundDiv(sum, count) == (2 * sum + count) \div (2 * count)

\* colorDistanceWeighted, squared and scaled by 512 (all weights become
\* integers); the source compares square roots, which orders the same way.
colorDistanceWeighted(c1, c2) ==
    LET rsum == c1.r + c2.r       \* 2 * rmean
        dr   == c1.r - c2.r
        dg   == c1.g - c2.g
        db   == c1.b - c2.b
    IN  (1024 + rsum) * dr * dr + 2048 * dg * dg + (1534 - rsum) * db * db

\* rgbToLab at the colours the model reaches (the rounded means of up to four
\* pixels drawn from black, white and red), each component times 100 and
\* rounded.
LabTable ==
        <<0, 0, 0>> :> <<0, 0, 0>> @@
        <<64, 0, 0>> :> <<972, 2975, 1535>> @@
        <<64, 64, 64>> :> <<2709, 0, 0>> @@
        <<85, 0, 0>> :> <<1513, 3600, 2357>> @@
        <<85, 64, 64>> :> <<2933, 912, 352>> @@
        <<85, 85, 85>> :> <<3615, 0, 0>> @@
        <<128, 0, 0>> :> <<2554, 4805, 3806>> @@
        <<128, 64, 64>> :> <<3526, 2752, 1269>> @@
        <<128, 85, 85>> :> <<4080, 1789, 731>> @@
        <<128, 128, 128>> :> <<5359, 0, 0>> @@
        <<170, 0, 0>> :> <<3510, 5911, 4940>> @@
        <<170, 64, 64>> :> <<4213, 4351, 2303>> @@
        <<170, 85, 85>> :> <<4658, 3476, 1620>> @@
        <<170, 128, 128>> :> <<5760, 1621, 632>> @@
        <<170, 170, 170>> :> <<6961, 0, 0>> @@
        <<191, 0, 0>> :> <<3972, 6445, 5408>> @@
        <<191, 64, 64>> :> <<4579, 5076, 2841>> @@
        <<191, 85, 85>> :> <<4978, 4261, 2105>> @@
        <<191, 128, 128>> :> <<5996, 2438, 999>> @@
        <<191, 170, 170>> :> <<7137, 758, 278>> @@
        <<191, 191, 191>> :> <<7734, 0, 0>> @@
        <<255, 0, 0>> :> <<5324, 8009, 6720>> @@
        <<255, 64, 64>> :> <<5737, 7055, 4482>> @@
        <<255, 85, 85>> :> <<6027, 6421, 3655>> @@
        <<255, 128, 128>> :> <<6821, 4819, 2270>> @@
        <<255, 170, 170>> :> <<7783, 3124, 1288>> @@
        <<255, 191, 191>> :> <<8307, 2296, 900>> @@
        <<255, 255, 255>> :> <<10000, 0, 0>>

rgbToLab(c) == LabTable[<<c.r, c.g, c.b>>]

\* the LAB branch of distanceFn, squared, in units of 1/100
colorDistanceLab(c1, c2) ==
    LET lab1 == rgbToLab(c1)
        lab2 == rgbToLab(c2)
    IN  (lab1[1] - lab2[1]) * (lab1[1] - lab2[1])
      + (lab1[2] - lab2[2]) * (lab1[2] - lab2[2])
      + (lab1[3] - lab2[3]) * (lab1[3] - lab2[3])

distanceFn(useLab, c1, c2) ==
    IF useLab THEN colorDistanceLab(c1, c2) ELSE colorDistanceWeighted(c1, c2)

Min(S) == CHOOSE m \in S : \A n \in S : m <= n

\* variant: the nearest centroid reported by its 1-based position
NearestIndexOneBased(pixel, centroids, useLab) ==
    LET d(i) == distanceFn(useLab, pixel, centroids[i])
        best == Min({d(i) : i \in 1 .. Len(centroids)})
    IN  Min({i \in 1 .. Len(centroids) : d(i) = best})

\* the assignment loop: the first centroid index (0-based) at minimal distance
NearestIndex(pixel, centroids, useLab) ==
    LET d(i) == distanceFn(useLab, pixel, centroids[i])
        best == Min({d(i) : i \in 1 .. Len(centroids)})
    IN  Min({i \in 1 .. Len(centroids) : d(i) = best}) - 1

(***************************************************************************)
(* initializeCentroids.  Math.random is a free choice.  The first centroid *)
(* is any pixel.  Each next one is drawn with                              *)
(*   target = random * totalDist;  first j with target - sum(d[0..j]) <= 0 *)
(* which picks index 0 (random = 0, or totalDist = 0) or any j whose       *)
(* distance to the nearest centroid is positive; when floating-point       *)
(* rounding leaves target positive after the loop, the fallback pushes any *)
(* pixel.                                                                  *)
(***************************************************************************)
WeightedPicks(pxs, centroids, useLab) ==
    {1} \cup {j \in 1 .. Len(pxs) :
                 Min({distanceFn(useLab, pxs[j], centroids[c]) : c \in 1 .. Len(centroids)}) > 0}

FallbackPicks(pxs) == 1 .. Len(pxs)

\* every centroid list initializeCentroids can return
RECURSIVE initializeCentroids(_, _, _)
initializeCentroids(pxs, k, useLab) ==
    IF k <= 1
    THEN {<<RGBOf(pxs[f])>> : f \in 1 .. Len(pxs)}
    ELSE UNION { {Append(cs, RGBOf(pxs[j])) :
                     j \in WeightedPicks(pxs, cs, useLab) \cup FallbackPicks(pxs)} :
                 cs \in initializeCentroids(pxs, k - 1, useLab) }

\* Update centroids: the rounded channel-wise mean of each non-empty cluster
UpdateCentroids(centroids, sample, assignments, k) ==
    [i \in 1 .. Len(centroids) |->
        LET members == {n \in 1 .. Len(sample) : assignments[n] = i - 1}
            count   == Cardinality(members)
            RECURSIVE Sum(_, _)
            Sum(S, ch) == IF S = {} THEN 0
                          ELSE LET n == CHOOSE n \in S : TRUE
                               IN  sample[n][ch] + Sum(S \ {n}, ch)
        IN  IF i <= k /\ count > 0
            THEN RGB(RoundDiv(Sum(members, "r"), count),
                     RoundDiv(Sum(members, "g"), count),
                     RoundDiv(Sum(members, "b"), count))
            ELSE centroids[i]]

\* for (iter = 0; iter < maxIterations; iter++) { assign; if (!changed) break; update }
\* returns [centroids, assignments, rounds, converged]
RECURSIVE LloydLoop(_, _, _, _, _, _, _)
LloydLoop(sample, centroids, assignments, iter, maxIterations, useLab, k) ==
    IF iter >= maxIterations
    THEN [centroids |-> centroids, assignments |-> assignments,
          rounds |-> iter, converged |-> FALSE]
    ELSE LET newAssignments ==
                 [n \in 1 .. Len(sample) |-> NearestIndex(sample[n], centroids, useLab)]
             changed == \E n \in 1 .. Len(sample) : newAssignments[n] # assignments[n]
         IN  IF ~changed
             THEN [centroids |-> centroids, assignments |-> newAssignments,
                   rounds |-> iter + 1, converged |-> TRUE]
             ELSE LloydLoop(sample,
                            UpdateCentroids(centroids, sample, newAssignments, k),
                            newAssignments, iter + 1, maxIterations, useLab, k)

IsOpaque(p) == p.a > AlphaCut

OpaquePixels(pxs) == SelectSeq(pxs, IsOpaque)

\* samplePixels: every step-th opaque pixel when there are more than MAX_SAMPLE_SIZE
SamplePixels(opaque) ==
    IF Len(opaque) > MAX_SAMPLE_SIZE
    THEN LET step == (Len(opaque) + MAX_SAMPLE_SIZE - 1) \div MAX_SAMPLE_SIZE
             kept == {i \in 1 .. Len(opaque) : (i - 1) % step = 0}
             RECURSIVE Pick(_)
             Pick(i) == IF i > Len(opaque) THEN <<>>
                        ELSE IF i \in kept THEN <<opaque[i]>> \o Pick(i + 1)
                        ELSE Pick(i + 1)
         IN  Pick(1)
    ELSE opaque

\* Map assignments back to original pixel array (including transparent)
FullAssignments(pxs, centroids, useLab) ==
    [n \in 1 .. Len(pxs) |->
        IF pxs[n].a <= AlphaCut THEN -1 ELSE NearestIndex(pxs[n], centroids, useLab)]

\* every result kMeansQuantize can return (one per outcome of Math.random)
kMeansQuantize(pxs, k, maxIterations, useLab) ==
    LET opaque == OpaquePixels(pxs)
    IN  IF Len(opaque) = 0
        THEN { [palette     |-> <<White>>,
                assignments |-> [n \in 1 .. Len(pxs) |-> 0],
                rounds      |-> 0,
                converged   |-> FALSE] }
        ELSE LET sample == SamplePixels(opaque)
             IN  { LET run == LloydLoop(sample, init, [n \in 1 .. Len(sample) |-> 0],
                                        0, maxIterations, useLab, k)
                   IN  [palette     |-> run.centroids,
                        assignments |-> FullAssignments(pxs, run.centroids, useLab),
                        rounds      |-> run.rounds,
                        converged   |-> run.converged] :
                   init \in initializeCentroids(sample, k, useLab) }

Quantize ==
    /\ qpc = "call"
    /\ qResult' \in kMeansQuantize(qPixels, qK, DefaultMaxIterations, qUseLab)
    /\ qpc' = "ret"
    /\ UNCHANGED <<qPixels, qK, qUseLab, cleanupVars, multiVars, routeVars,
                   lloydVars, convVars, dimVars, simpVars,
                   smoothVars, jimpVars, histVars, appVars>>

CleanupIdle ==
    /\ width = 0
    /\ height = 0
    /\ settings = <<>>
    /\ inputs = <<>>
    /\ pixels = <<>>
    /\ cpc = "idle"
    /\ stepsRun = <<>>
    /\ bufs = <<>>
    /\ iterBufs = <<>>
    /\ argAfter = <<>>

BaseColours == {RGB(0, 0, 0), RGB(255, 255, 255), RGB(255, 0, 0)}

\* the base colours, opaque
OpaqueBase == {[r |-> c.r, g |-> c.g, b |-> c.b, a |-> 255] : c \in BaseColours}

\* alpha on either side of the opacity cut
QPixelValues ==
    {[r |-> c.r, g |-> c.g, b |-> c.b, a |-> a] : c \in BaseColours, a \in {AlphaCut, AlphaCut + 1}}

InitQuant ==
    /\ CleanupIdle
    /\ RestIdle
    /\ MultiIdle
    /\ RouteIdle
    /\ LaterIdle
    /\ \E n \in 1 .. MaxQPixels : qPixels \in [1 .. n -> QPixelValues]
    /\ qK \in 1 .. MaxK
    /\ qUseLab \in BOOLEAN
    /\ qpc = "call"
    /\ qResult = <<>>

NextQuant == Quantize

SpecQuant == InitQuant /\ [][NextQuant]_vars

(***************************************************************************)
(* Part 3  Vectorizer.processMulticolor: the per-colour trace loop         *)
(*                                                                         *)
(* potraceTrace is an external library: for each colour it either rejects  *)
(* or yields an SVG from which extractPathsAndViewBox reads some number of *)
(* paths.  A layer is [paths, ds, color, name]; paths is the number of     *)
(* paths, ds their `d` texts, name is <<"Color", N>> for the string        *)
(* `Color N`.  The viewBox potrace reports is the size of the bitmap it    *)
(* was given, so finalViewBox is width x height.                           *)
(***************************************************************************)
\* getLuminance, times 1000
getLuminance(color) == 299 * color.r + 587 * color.g + 114 * color.b

\* mutant: the palette is left in the quantizer's order
sortColorsUnsorted(colors) == colors

\* [...colors].sort((a, b) => getLuminance(a) - getLuminance(b)); the sort is
\* stable, so equal luminances keep their order
sortColorsByLuminance(colors) ==
    LET n == Len(colors)
        Before(i, j) == \/ getLuminance(colors[i]) < getLuminance(colors[j])
                        \/ /\ getLuminance(colors[i]) = getLuminance(colors[j])
                           /\ i < j
        at == CHOOSE q \in [1 .. n -> 1 .. n] :
                  \A i, j \in 1 .. n : i < j => Before(q[i], q[j])
    IN  [i \in 1 .. n |-> colors[at[i]]]

\* sortedPalette.findIndex(c => c.r === color.r && c.g === color.g && c.b === color.b)
findIndex(sorted, color) ==
    IF \E i \in 1 .. Len(sorted) : sorted[i] = color
    THEN Min({i \in 1 .. Len(sorted) : sorted[i] = color}) - 1
    ELSE -1

\* toHex: two hexadecimal digits of a channel clamped to 0..255
toHex(n) ==
    LET c == IF n < 0 THEN 0 ELSE IF n > 255 THEN 255 ELSE n
    IN  <<c \div 16, c % 16>>

\* rgbToHex: the six digits after '#'
rgbToHex(color) == toHex(color.r) \o toHex(color.g) \o toHex(color.b)

(***************************************************************************)
(* Numbers that need not be whole (target sizes, the aspect ratio, output  *)
(* sizes) are fractions <<numerator, denominator>> with a positive         *)
(* denominator, so that products and quotients are exact.                  *)
(***************************************************************************)
Frac(n, d) == <<n, d>>

FracMul(a, b) == <<a[1] * b[1], a[2] * b[2]>>

\* a / b, for b > 0
FracDiv(a, b) == <<a[1] * b[2], a[2] * b[1]>>

FracLess(a, b) == a[1] * b[2] < b[1] * a[2]

FracEq(a, b) == a[1] * b[2] = b[1] * a[2]

\* mutant: the branches are swapped, the larger dimension is kept
calculateOutputDimensionsSwapped(sourceWidth, sourceHeight, st) ==
    LET aspectRatio  == Frac(sourceWidth, sourceHeight)
        outputWidth  == st.targetWidth
        outputHeight == st.targetHeight
    IN  IF FracLess(aspectRatio, FracDiv(outputWidth, outputHeight))
        THEN [outputWidth  |-> outputWidth,
              outputHeight |-> FracDiv(outputWidth, aspectRatio)]
        ELSE [outputWidth  |-> FracMul(outputHeight, aspectRatio),
              outputHeight |-> outputHeight]

\* mutant: no correction, the targets are returned as they are
calculateOutputDimensionsAsRequested(sourceWidth, sourceHeight, st) ==
    [outputWidth |-> st.targetWidth, outputHeight |-> st.targetHeight]

\* calculateOutputDimensions: aspectRatio = sourceWidth / sourceHeight; the
\* width is recomputed when targetWidth / targetHeight > aspectRatio, else
\* the height
calculateOutputDimensions(sourceWidth, sourceHeight, st) ==
    LET aspectRatio  == Frac(sourceWidth, sourceHeight)
        outputWidth  == st.targetWidth
        outputHeight == st.targetHeight
    IN  IF FracLess(aspectRatio, FracDiv(outputWidth, outputHeight))
        THEN [outputWidth  |-> FracMul(outputHeight, aspectRatio),
              outputHeight |-> outputHeight]
        ELSE [outputWidth  |-> outputWidth,
              outputHeight |-> FracDiv(outputWidth, aspectRatio)]

(***************************************************************************)
(* The tracer options derived from settings.detail (a whole number).       *)
(* optTolerance is held in thousandths: 2 - (detail / 100) * 1.8.          *)
(***************************************************************************)
Max(a, b) == IF a >= b THEN a ELSE b

\* mutant: the slope has the other sign
detailToToleranceRising(detail) == 200 + 18 * detail

detailToTolerance(detail) == 2000 - 18 * detail

\* mutant: the configured threshold also after cleanup
SilhouetteOptionsConfigured(st, hasCleanupOptions) ==
    [turdSize     |-> Max(2, (100 - st.detail) \div 10),
     optTolerance |-> detailToTolerance(st.detail),
     threshold    |-> ThresholdOf(st),
     blackOnWhite |-> TRUE]

\* the options processSilhouette hands to potraceTrace
SilhouetteOptions(st, hasCleanupOptions) ==
    [turdSize     |-> Max(2, (100 - st.detail) \div 10),
     optTolerance |-> detailToTolerance(st.detail),
     threshold    |-> IF hasCleanupOptions THEN 128 ELSE ThresholdOf(st),
     blackOnWhite |-> TRUE]

\* the options processMulticolor hands to potraceTrace, for every colour
MulticolorOptions(st) ==
    [turdSize     |-> Max(2, (100 - st.detail) \div 10),
     optTolerance |-> detailToTolerance(st.detail),
     threshold    |-> 128,
     blackOnWhite |-> TRUE]

\* the options processLineart hands to potraceTrace;
\* Math.floor(50 - detail / 2) is (100 - detail) \div 2 for detail <= 100
LineartOptions(st) ==
    [turdSize     |-> Max(2, (100 - st.detail) \div 5),
     optTolerance |-> detailToTolerance(st.detail),
     threshold    |-> 128 + (100 - st.detail) \div 2,
     blackOnWhite |-> TRUE]

(***************************************************************************)
(* The SVG text.  A text is a sequence of one-character strings.  The      *)
(* document is the sequence of its tags, [tag, attrs], an attribute being  *)
(* [name, value] with both as texts; this is all the code's regular        *)
(* expressions look at.                                                    *)
(***************************************************************************)
\* the literal texts of buildSVG and buildMultiLayerSVG
TXT_INCHES == <<"i", "n", "c", "h", "e", "s">>

TXT_SILHOUETTE == <<"S", "i", "l", "h", "o", "u", "e", "t", "t", "e">>

TXT_LINEART == <<"L", "i", "n", "e", " ", "A", "r", "t">>

TXT_COLOR == <<"C", "o", "l", "o", "r", " ">>

TXT_UTF8 == <<"U", "T", "F", "-", "8">>

TXT_XMLNS == <<"h", "t", "t", "p", ":", "/", "/", "w", "w", "w", ".", "w", "3", ".", "o", "r", "g", "/", "2", "0", "0", "0", "/", "s", "v", "g">>

TXT_LAYER == <<"l", "a", "y", "e", "r", "-">>

N_VERSION == <<"v", "e", "r", "s", "i", "o", "n">>

N_ENCODING == <<"e", "n", "c", "o", "d", "i", "n", "g">>

N_XMLNS == <<"x", "m", "l", "n", "s">>

N_WIDTH == <<"w", "i", "d", "t", "h">>

N_HEIGHT == <<"h", "e", "i", "g", "h", "t">>

N_VIEWBOX == <<"v", "i", "e", "w", "B", "o", "x">>

N_ID == <<"i", "d">>

N_DATA_NAME == <<"d", "a", "t", "a", "-", "n", "a", "m", "e">>

N_D == <<"d">>

N_FILL == <<"f", "i", "l", "l">>

Digit(n) == <<"0", "1", "2", "3", "4", "5", "6", "7", "8", "9">>[n + 1]

\* String(n) for a whole n >= 0
RECURSIVE Digits(_)
Digits(n) == IF n < 10 THEN <<Digit(n)>> ELSE Append(Digits(n \div 10), Digit(n % 10))

HexDigit(n) ==
    <<"0", "1", "2", "3", "4", "5", "6", "7", "8", "9", "a", "b", "c", "d", "e", "f">>[n + 1]

\* '#' and the six digits of rgbToHex
HexText(hex) == <<"#">> \o [i \in 1 .. Len(hex) |-> HexDigit(hex[i])]

\* x.toFixed(4) for x >= 0: x rounded to the nearest ten-thousandth (half up),
\* written with four decimals
toFixed4(x) ==
    LET n == (2 * 10000 * x[1] + x[2]) \div (2 * x[2])
        f == n % 10000
    IN  Digits(n \div 10000)
        \o <<".", Digit(f \div 1000), Digit((f \div 100) % 10),
             Digit((f \div 10) % 10), Digit(f % 10)>>

\* `${unit}`
UnitText(unit) == IF unit = "inches" THEN TXT_INCHES ELSE IF unit = "mm" THEN <<"m", "m">> ELSE <<>>

\* a layer name as text: 'Silhouette', 'Line Art', `Color ${colorIndex + 1}`
NameText(name) ==
    IF name = <<"Silhouette">> THEN TXT_SILHOUETTE
    ELSE IF name = <<"Line Art">> THEN TXT_LINEART
    ELSE TXT_COLOR \o Digits(name[2])

Attr(name, value) == [name |-> name, value |-> value]

Tag(tag, attrs) == [tag |-> tag, attrs |-> attrs]

\* <?xml version="1.0" encoding="UTF-8"?>
XmlLine == Tag("?xml", <<Attr(N_VERSION, <<"1", ".", "0">>), Attr(N_ENCODING, TXT_UTF8)>>)

\* <svg xmlns=... width="${outputWidth.toFixed(4)}${unit}" height=... viewBox="0 0 W H">
SvgLine(out, unit, viewBoxWidth, viewBoxHeight) ==
    Tag("svg", <<Attr(N_XMLNS, TXT_XMLNS),
                 Attr(N_WIDTH, toFixed4(out.outputWidth) \o UnitText(unit)),
                 Attr(N_HEIGHT, toFixed4(out.outputHeight) \o UnitText(unit)),
                 Attr(N_VIEWBOX, <<"0", " ", "0", " ">> \o Digits(viewBoxWidth)
                                 \o <<" ">> \o Digits(viewBoxHeight))>>)

\* <g id="layer-${index}" data-name="${name}">
GroupLine(index, name) ==
    Tag("g", <<Attr(N_ID, TXT_LAYER \o Digits(index)), Attr(N_DATA_NAME, NameText(name))>>)

\* <path d="${pathD}" fill="${fillColor}"/>
PathLine(pathD, fillColor) ==
    Tag("path", <<Attr(N_D, pathD), Attr(N_FILL, HexText(fillColor))>>)

PathLines(paths, fillColor) == [j \in 1 .. Len(paths) |-> PathLine(paths[j], fillColor)]

\* buildSVG: one group, always written, holding the paths
buildSVG(paths, st, viewBoxWidth, viewBoxHeight, fillColor, layerName) ==
    <<XmlLine,
      SvgLine(calculateOutputDimensions(viewBoxWidth, viewBoxHeight, st), st.unit,
              viewBoxWidth, viewBoxHeight),
      GroupLine(0, layerName)>>
    \o PathLines(paths, fillColor)
    \o <<Tag("/g", <<>>), Tag("/svg", <<>>)>>

\* the lines of the layers from `index` on
RECURSIVE LayerLines(_, _)
LayerLines(layerData, index) ==
    IF index > Len(layerData) THEN <<>>
    ELSE <<GroupLine(index - 1, layerData[index].name)>>
         \o PathLines(layerData[index].ds, layerData[index].color)
         \o <<Tag("/g", <<>>)>>
         \o LayerLines(layerData, index + 1)

\* buildMultiLayerSVG: one group per entry of layerData
buildMultiLayerSVG(layerData, st, viewBoxWidth, viewBoxHeight) ==
    <<XmlLine,
      SvgLine(calculateOutputDimensions(viewBoxWidth, viewBoxHeight, st), st.unit,
              viewBoxWidth, viewBoxHeight)>>
    \o LayerLines(layerData, 1)
    \o <<Tag("/svg", <<>>)>>

\* the class [MLHVCSQTAZmlhvcsqtaz]
CommandLetters ==
    {"M", "L", "H", "V", "C", "S", "Q", "T", "A", "Z",
     "m", "l", "h", "v", "c", "s", "q", "t", "a", "z"}

\* text.match(/[MLHVCSQTAZmlhvcsqtaz]/g).length
CountCommands(text) == Cardinality({i \in 1 .. Len(text) : text[i] \in CommandLetters})

\* the sum of f[1] .. f[n]
RECURSIVE SumTo(_, _)
SumTo(f, n) == IF n = 0 THEN 0 ELSE SumTo(f, n - 1) + f[n]

\* countPathPoints: the command letters of all the paths
countPathPoints(paths) ==
    SumTo([j \in 1 .. Len(paths) |-> CountCommands(paths[j])], Len(paths))

\* the j-th path a trace yields: M, then j times L, then Z
PathString(j) == <<"M", "1">> \o [i \in 1 .. j |-> "L"] \o <<"Z">>

\* the paths extractPathsAndViewBox reads from a trace that yields n paths
PathStrings(n) == [j \in 1 .. n |-> PathString(j)]

\* what one potraceTrace + extractPathsAndViewBox can do
TraceOutcomes ==
    {[threw |-> TRUE, paths |-> 0, ds |-> <<>>]}
    \cup {[threw |-> FALSE, paths |-> n, ds |-> PathStrings(n)] : n \in 0 .. MaxTracePaths}

\* processMulticolor up to the loop: sort the palette, build paletteMap
StartMulticolor ==
    /\ mpc = "call"
    /\ sortedPalette' = sortColorsByLuminance(palette)
    /\ paletteMap' = [old \in 1 .. Len(palette) |->
                         findIndex(sortColorsByLuminance(palette), palette[old])]
    /\ allLayerPaths' = <<>>
    /\ colorIndex' = 0
    /\ mpc' = "loop"
    /\ UNCHANGED <<palette, traces, mcLayers, mcSettings, mcWidth, mcHeight, mcOpts, mcSvg,
                   mcAssignments, mcMasks,
                   cleanupVars, quantVars, routeVars,
                   lloydVars, convVars, dimVars, simpVars,
                   smoothVars, jimpVars, histVars, appVars>>

\* mutant: the assignment is compared with colorIndex without paletteMap
binaryDataUnmapped(assignments, map, index) ==
    [i \in 1 .. Len(assignments) |->
        IF assignments[i] = -1 THEN WHITE
        ELSE IF assignments[i] = index THEN BLACK ELSE WHITE]

\* the mask of one colour: assignments.forEach((assignment, i) => ...); pixel i
\* of the source is entry i + 1, and old palette index a is map[a + 1]
binaryData(assignments, map, index) ==
    [i \in 1 .. Len(assignments) |->
        IF assignments[i] = -1 THEN WHITE
        ELSE IF map[assignments[i] + 1] = index THEN BLACK ELSE WHITE]

\* variant: no try/catch around the trace, a rejection leaves processMulticolor
TraceColourUncaught ==
    /\ mpc = "loop"
    /\ colorIndex < Len(sortedPalette)
    /\ \E t \in TraceOutcomes :
        /\ traces' = Append(traces, t)
        /\ IF t.threw
           THEN /\ mpc' = "thrown"
                /\ UNCHANGED <<allLayerPaths, colorIndex>>
           ELSE /\ allLayerPaths' =
                       IF t.paths > 0
                       THEN Append(allLayerPaths,
                                   [paths |-> t.paths,
                                    ds    |-> t.ds,
                                    color |-> rgbToHex(sortedPalette[colorIndex + 1]),
                                    name  |-> <<"Color", colorIndex + 1>>])
                       ELSE allLayerPaths
                /\ colorIndex' = colorIndex + 1
                /\ mpc' = "loop"
    /\ mcOpts' = Append(mcOpts, MulticolorOptions(mcSettings))
    /\ mcMasks' = Append(mcMasks, binaryData(mcAssignments, paletteMap, colorIndex))
    /\ UNCHANGED <<palette, sortedPalette, paletteMap, mcLayers, mcSettings, mcWidth, mcHeight,
                   mcSvg, mcAssignments, cleanupVars, quantVars, routeVars,
                   lloydVars, convVars, dimVars, simpVars,
                   smoothVars, jimpVars, histVars, appVars>>

\* one iteration of the loop: trace this colour inside try/catch; the catch
\* only logs
TraceColour ==
    /\ mpc = "loop"
    /\ colorIndex < Len(sortedPalette)
    /\ \E t \in TraceOutcomes :
        /\ traces' = Append(traces, t)
        /\ allLayerPaths' =
               IF ~t.threw /\ t.paths > 0
               THEN Append(allLayerPaths,
                           [paths |-> t.paths,
                            ds    |-> t.ds,
                            color |-> rgbToHex(sortedPalette[colorIndex + 1]),
                            name  |-> <<"Color", colorIndex + 1>>])
               ELSE allLayerPaths
    /\ colorIndex' = colorIndex + 1
    /\ mcOpts' = Append(mcOpts, MulticolorOptions(mcSettings))
    /\ mcMasks' = Append(mcMasks, binaryData(mcAssignments, paletteMap, colorIndex))
    /\ UNCHANGED <<palette, sortedPalette, paletteMap, mpc, mcLayers, mcSettings, mcWidth,
                   mcHeight, mcSvg, mcAssignments, cleanupVars, quantVars, routeVars,
                   lloydVars, convVars, dimVars, simpVars,
                   smoothVars, jimpVars, histVars, appVars>>

\* after the loop: buildMultiLayerSVG, allLayerPaths.map((layer, index) => ...),
\* return
FinishMulticolor ==
    /\ mpc = "loop"
    /\ colorIndex >= Len(sortedPalette)
    /\ mcSvg' = buildMultiLayerSVG(allLayerPaths, mcSettings, mcWidth, mcHeight)
    /\ mcLayers' = [index \in 1 .. Len(allLayerPaths) |->
                       [id         |-> <<"layer", index - 1>>,
                        name       |-> allLayerPaths[index].name,
                        color      |-> allLayerPaths[index].color,
                        pathCount  |-> allLayerPaths[index].paths,
                        pointCount |-> countPathPoints(allLayerPaths[index].ds)]]
    /\ mpc' = "ret"
    /\ UNCHANGED <<palette, sortedPalette, paletteMap, colorIndex, allLayerPaths, traces,
                   mcSettings, mcWidth, mcHeight, mcOpts, mcAssignments, mcMasks,
                   cleanupVars, quantVars, routeVars,
                   lloydVars, convVars, dimVars, simpVars,
                   smoothVars, jimpVars, histVars, appVars>>

\* a VectorizationSettings as convert and the mode processors read it; the
\* fields left at their defaults are those of DEFAULT_SETTINGS
ConvertSettings(mode, detail, colorLayers, targetWidth, targetHeight, unit) ==
    [mode |-> mode, detail |-> detail, smoothing |-> 50, colorLayers |-> colorLayers,
     minAreaThreshold |-> 1, background |-> "transparent",
     targetWidth |-> targetWidth, targetHeight |-> targetHeight, unit |-> unit,
     threshold |-> <<DefaultThreshold>>, removeEdgeRegions |-> FALSE, minRegionSize |-> 0,
     erosionLevel |-> 0, invert |-> FALSE]

InitMulti ==
    /\ CleanupIdle
    /\ RestIdle
    /\ QuantIdle
    /\ RouteIdle
    /\ LaterIdle
    /\ mcSettings = ConvertSettings("multicolor", 50, 4, Frac(6, 1), Frac(6, 1), "inches")
    /\ mcWidth = 2
    /\ mcHeight = 1
    /\ mcOpts = <<>>
    /\ mcSvg = <<>>
    /\ mcAssignments = [i \in 1 .. mcWidth * mcHeight |-> 0]
    /\ mcMasks = <<>>
    /\ \E n \in 1 .. MaxColours : palette \in [1 .. n -> BaseColours]
    /\ sortedPalette = <<>>
    /\ paletteMap = <<>>
    /\ colorIndex = 0
    /\ allLayerPaths = <<>>
    /\ traces = <<>>
    /\ mpc = "call"
    /\ mcLayers = <<>>

NextMulti == StartMulticolor \/ TraceColour \/ FinishMulticolor

SpecMulti == InitMulti /\ [][NextMulti]_vars

(***************************************************************************)
(* Part 4  POST /api/convert (routes/convert.ts) and the App's             *)
(*         handleGenerate / convertImage                                   *)
(*                                                                         *)
(* minAreaThreshold and minRegionSize are percentages with one decimal and *)
(* are held in tenths.  vectorizer.convert is seen from the route: it is   *)
(* invoked with the settings, and either resolves with {svg, layers,       *)
(* stats} or rejects.                                                      *)
(***************************************************************************)
DEFAULT_SETTINGS ==
    [mode |-> "silhouette", detail |-> 50, smoothing |-> 50, colorLayers |-> 4,
     minAreaThreshold |-> 1, background |-> "transparent",
     targetWidth |-> 6, targetHeight |-> 6, unit |-> "inches", threshold |-> 128,
     removeEdgeRegions |-> FALSE, minRegionSize |-> 0, erosionLevel |-> 0,
     invert |-> FALSE]

SettingFields ==
    {"mode", "detail", "smoothing", "colorLayers", "minAreaThreshold", "background",
     "targetWidth", "targetHeight", "unit", "threshold", "minRegionSize", "erosionLevel"}

\* for each field: the ends of its range, and the values just outside
FieldValues(f) ==
    CASE f = "mode"             -> {"silhouette", "multicolor", "lineart", "sketch"}
      [] f = "detail"           -> {-1, 0, 100, 101}
      [] f = "smoothing"        -> {-1, 0, 100, 101}
      [] f = "colorLayers"      -> {1, 2, 16, 17}
      [] f = "minAreaThreshold" -> {-1, 0, 50, 51}
      [] f = "background"       -> {"transparent", "remove", "keep", "blur"}
      [] f = "targetWidth"      -> {0, 1, 100, 101}
      [] f = "targetHeight"     -> {0, 1, 100, 101}
      [] f = "unit"             -> {"inches", "mm", "feet"}
      [] f = "threshold"        -> {-1, 0, MaxThreshold, MaxThreshold + 1}
      [] f = "minRegionSize"    -> {-1, 0, MaxRegionTenths, MaxRegionTenths + 1}
      [] f = "erosionLevel"     -> {-1, 0, MaxErosionLevel, MaxErosionLevel + 1}

\* the settings objects a client can send that set exactly the fields in D
RECURSIVE SettingsOver(_)
SettingsOver(D) ==
    IF D = {}
    THEN {[f \in {} |-> 0]}
    ELSE LET d == CHOOSE d \in D : TRUE
         IN  {(d :> v) @@ g : v \in FieldValues(d), g \in SettingsOver(D \ {d})}

ParsedSettings ==
    UNION {SettingsOver(D) : D \in {E \in SUBSET SettingFields : Cardinality(E) <= MaxOverrides}}

\* settings = { ...DEFAULT_SETTINGS, ...parsedSettings }
MergeSettings(parsedSettings) == parsedSettings @@ DEFAULT_SETTINGS

\* validateSettings: the error string, or "" for null
validateSettings(st) ==
    IF st.mode \notin {"silhouette", "multicolor", "lineart"}
    THEN "Invalid mode. Must be: silhouette, multicolor, or lineart"
    ELSE IF st.detail < 0 \/ st.detail > 100
    THEN "Detail must be between 0 and 100"
    ELSE IF st.smoothing < 0 \/ st.smoothing > 100
    THEN "Smoothing must be between 0 and 100"
    ELSE IF st.colorLayers < 2 \/ st.colorLayers > 16
    THEN "Color layers must be between 2 and 16"
    ELSE IF st.targetWidth <= 0 \/ st.targetHeight <= 0
    THEN "Target dimensions must be positive"
    ELSE IF st.targetWidth > 100 \/ st.targetHeight > 100
    THEN "Target dimensions cannot exceed 100 inches/mm"
    ELSE IF st.unit \notin {"inches", "mm"}
    THEN "Unit must be: inches or mm"
    ELSE IF st.background \notin {"transparent", "remove", "keep"}
    THEN "Background handling must be: transparent, remove, or keep"
    ELSE ""

\* generateCricutWarnings, without the warnings that depend on the SVG text
\* size and the point count
generateCricutWarnings(result, st) ==
    LET maxDimension == IF st.targetWidth > st.targetHeight
                        THEN st.targetWidth ELSE st.targetHeight
        tooLarge == IF st.unit = "mm" THEN 10 * maxDimension > 5969   \* / 25.4 > 23.5
                    ELSE 2 * maxDimension > 47                         \* > 23.5
    IN  (IF result.totalPaths > WARN_PATHS THEN <<"paths">> ELSE <<>>)
        \o (IF tooLarge THEN <<"dimension">> ELSE <<>>)
        \o (IF result.layers > MaxLayersNoWarning THEN <<"layers">> ELSE <<>>)

ErrorBody(message) == [error |-> message, requestId |-> "uuid"]

\* router.post('/') up to the await on vectorizer.convert
PostConvert ==
    /\ rpc = "recv"
    /\ IF ~req.file
       THEN /\ response' = [status |-> BadRequest, body |-> ErrorBody("No image file provided")]
            /\ rpc' = "done"
            /\ UNCHANGED convertCalls
       ELSE IF req.settings = "malformed"
       THEN /\ response' = [status |-> BadRequest, body |-> ErrorBody("Invalid settings format")]
            /\ rpc' = "done"
            /\ UNCHANGED convertCalls
       ELSE LET st == IF req.settings = "absent" THEN DEFAULT_SETTINGS
                      ELSE MergeSettings(req.parsed)
            IN  IF validateSettings(st) # ""
                THEN /\ response' = [status |-> BadRequest,
                                     body |-> ErrorBody(validateSettings(st))]
                     /\ rpc' = "done"
                     /\ UNCHANGED convertCalls
                ELSE /\ convertCalls' = Append(convertCalls, st)
                     /\ rpc' = "converting"
                     /\ UNCHANGED response
    /\ UNCHANGED <<req, convOutcome, conversionStatus, appError, svgData,
                   cleanupVars, quantVars, multiVars,
                   lloydVars, convVars, dimVars, simpVars,
                   smoothVars, jimpVars, histVars, appVars>>

\* vectorizer.convert resolves; the route answers res.json({...})
ConvertReturns ==
    /\ rpc = "converting"
    /\ \E layers \in 0 .. MaxResultLayers, totalPaths \in 0 .. MaxResultPaths :
        LET result   == [layers |-> layers, totalPaths |-> totalPaths]
            warnings == generateCricutWarnings(result, convertCalls[Len(convertCalls)])
        IN  response' =
                [status |-> OK,
                 body   |-> [svg       |-> [paths |-> totalPaths],
                             layers    |-> layers,
                             stats     |-> [totalPaths |-> totalPaths],
                             warnings  |-> warnings,
                             warning   |-> IF Len(warnings) > 0 THEN warnings[1] ELSE "",
                             requestId |-> "uuid"]]
    /\ convOutcome' = "completed"
    /\ rpc' = "done"
    /\ UNCHANGED <<req, convertCalls, conversionStatus, appError, svgData,
                   cleanupVars, quantVars, multiVars,
                   lloydVars, convVars, dimVars, simpVars,
                   smoothVars, jimpVars, histVars, appVars>>

\* what can be thrown: an Error with a message, an Error without one, a non-Error
Thrown ==
    {[isError |-> TRUE, message |-> "Input buffer contains unsupported image format"],
     [isError |-> TRUE, message |-> ""],
     [isError |-> FALSE, message |-> ""]}

\* variant: the catch block answers with res.json, status 200
ConvertThrowsAnswered200 ==
    /\ rpc = "converting"
    /\ \E error \in Thrown :
        response' = [status |-> OK,
                     body |-> ErrorBody(IF error.isError THEN error.message
                                        ELSE "Conversion failed")]
    /\ convOutcome' = "threw"
    /\ rpc' = "done"
    /\ UNCHANGED <<req, convertCalls, conversionStatus, appError, svgData,
                   cleanupVars, quantVars, multiVars,
                   lloydVars, convVars, dimVars, simpVars,
                   smoothVars, jimpVars, histVars, appVars>>

\* vectorizer.convert rejects; the catch block answers 500
ConvertThrows ==
    /\ rpc = "converting"
    /\ \E error \in Thrown :
        response' = [status |-> ServerError,
                     body |-> ErrorBody(IF error.isError THEN error.message
                                        ELSE "Conversion failed")]
    /\ convOutcome' = "threw"
    /\ rpc' = "done"
    /\ UNCHANGED <<req, convertCalls, conversionStatus, appError, svgData,
                   cleanupVars, quantVars, multiVars,
                   lloydVars, convVars, dimVars, simpVars,
                   smoothVars, jimpVars, histVars, appVars>>

\* App.handleGenerate up to the await: needs a file, sends state.settings
handleGenerate ==
    /\ rpc = "none"
    /\ conversionStatus = "idle"
    /\ req.file
    /\ req.settings = "json"
    /\ conversionStatus' = "processing"
    /\ appError' = <<>>
    /\ rpc' = "recv"
    /\ UNCHANGED <<req, convertCalls, convOutcome, response, svgData,
                   cleanupVars, quantVars, multiVars,
                   lloydVars, convVars, dimVars, simpVars,
                   smoothVars, jimpVars, histVars, appVars>>

\* any other HTTP client posting to the route
PostDirect ==
    /\ rpc = "none"
    /\ conversionStatus = "idle"
    /\ conversionStatus' = "none"
    /\ rpc' = "recv"
    /\ UNCHANGED <<req, convertCalls, convOutcome, response, appError, svgData,
                   cleanupVars, quantVars, multiVars,
                   lloydVars, convVars, dimVars, simpVars,
                   smoothVars, jimpVars, histVars, appVars>>

\* response.ok
ResponseOk(r) == r.status >= 200 /\ r.status <= 299

\* convertImage resolves or rejects, and handleGenerate finishes
ReceiveResponse ==
    /\ rpc = "done"
    /\ conversionStatus = "processing"
    /\ IF ResponseOk(response)
       THEN /\ svgData' = [raw |-> response.body.svg, layers |-> response.body.layers]
            /\ conversionStatus' = "success"
            /\ UNCHANGED appError
       ELSE /\ appError' = <<IF response.body.error = "" THEN "Conversion failed"
                             ELSE response.body.error>>
            /\ conversionStatus' = "error"
            /\ UNCHANGED svgData
    /\ UNCHANGED <<req, rpc, convertCalls, convOutcome, response,
                   cleanupVars, quantVars, multiVars,
                   lloydVars, convVars, dimVars, simpVars,
                   smoothVars, jimpVars, histVars, appVars>>

Requests ==
    [file : BOOLEAN, settings : {"absent", "malformed"}, parsed : {[f \in {} |-> 0]}]
    \cup [file : BOOLEAN, settings : {"json"}, parsed : ParsedSettings]

InitRoute ==
    /\ CleanupIdle
    /\ RestIdle
    /\ QuantIdle
    /\ MultiIdle
    /\ LaterIdle
    /\ req \in Requests
    /\ rpc = "none"
    /\ convertCalls = <<>>
    /\ convOutcome = "none"
    /\ response = <<>>
    /\ conversionStatus = "idle"
    /\ appError = <<>>
    /\ svgData = <<>>

NextRoute ==
    \/ handleGenerate
    \/ PostDirect
    \/ PostConvert
    \/ ConvertReturns
    \/ ConvertThrows
    \/ ReceiveResponse

SpecRoute == InitRoute /\ [][NextRoute]_vars

(***************************************************************************)
(* Part 5  Vectorizer.convert and the single-layer mode processors         *)
(*                                                                         *)
(* convert decodes the image (cvImage, cvWidth x cvHeight; no resize, the  *)
(* images are far below MAX_DIMENSION), runs the processor of              *)
(* settings.mode and derives the stats from the SVG text.  What the tracer *)
(* returns does not follow from the model's pixels: every outcome of       *)
(* TraceOutcomes is possible for every bitmap.  In multicolor mode convert *)
(* runs the processMulticolor of Part 3 on the palette kMeansQuantize      *)
(* returns for the image.                                                  *)
(***************************************************************************)
\* the viewBox extractPathsAndViewBox can report: none (0 x 0), or the bitmap's
ViewBoxes(w, h) == {[width |-> 0, height |-> 0], [width |-> w, height |-> h]}

\* '#000000'
Black000 == rgbToHex(RGB(0, 0, 0))

\* svg.match(/<path/g): the <path tags of the text
pathMatches(svg) == {i \in 1 .. Len(svg) : svg[i].tag = "path"}

\* all the attributes of the text, in order
RECURSIVE AllAttrs(_, _)
AllAttrs(svg, i) == IF i > Len(svg) THEN <<>> ELSE svg[i].attrs \o AllAttrs(svg, i + 1)

EndsInD(attr) == attr.name[Len(attr.name)] = "d"

\* svg.match(/d="([^"]*)"/g): the regular expression is not anchored, so it
\* matches `d="..."` at the end of every attribute whose name ends in d
dMatches(svg) ==
    LET hits == SelectSeq(AllAttrs(svg, 1), EndsInD)
    IN  [i \in 1 .. Len(hits) |-> <<"d", "=", "\"">> \o hits[i].value \o <<"\"">>]

\* the stats of convert (processingTimeMs left out)
ConversionStats(svg, st, originalWidth, originalHeight) ==
    [totalPaths     |-> Cardinality(pathMatches(svg)),
     totalPoints    |-> SumTo([i \in 1 .. Len(dMatches(svg)) |-> CountCommands(dMatches(svg)[i])],
                              Len(dMatches(svg))),
     originalWidth  |-> originalWidth,
     originalHeight |-> originalHeight,
     outputWidth    |-> st.targetWidth,
     outputHeight   |-> st.targetHeight]

\* the one layer processSilhouette and processLineart return, whatever the
\* number of paths
SingleLayer(name, paths) ==
    <<[id         |-> <<"layer", 0>>,
       name       |-> name,
       color      |-> Black000,
       pathCount  |-> Len(paths),
       pointCount |-> countPathPoints(paths)]>>

\* a single-layer processor from the trace on, and the end of convert
SingleLayerResult(name, t, vb) ==
    LET vbWidth  == IF vb.width # 0 THEN vb.width ELSE cvWidth
        vbHeight == IF vb.height # 0 THEN vb.height ELSE cvHeight
        svg      == buildSVG(t.ds, cvSettings, vbWidth, vbHeight, Black000, name)
    IN  [svg    |-> svg,
         layers |-> SingleLayer(name, t.ds),
         stats  |-> ConversionStats(svg, cvSettings, cvWidth, cvHeight)]

\* what sharp(imageBuffer).grayscale() can yield for an image of w x h pixels:
\* the conversion is the library's, any samples are possible
GrayImages(w, h) == [Idx(w, h) -> {BLACK, DarkGrey, WHITE}]

\* convert in silhouette mode: processSilhouette, then the stats
ConvertSilhouette ==
    /\ cvpc = "call"
    /\ cvSettings.mode = "silhouette"
    /\ \E gray \in GrayImages(cvWidth, cvHeight) :
        LET hasCleanupOptions == \/ cvSettings.invert
                                 \/ cvSettings.erosionLevel > 0
                                 \/ cvSettings.removeEdgeRegions
                                 \/ cvSettings.minRegionSize > 0
            cleaned == applyCleanupOptions(gray, cvSettings, cvWidth, cvHeight)
        IN  /\ silTraced' = IF hasCleanupOptions
                            THEN [gray |-> gray, steps |-> cleaned.steps,
                                  pixels |-> cleaned.pixels]
                            ELSE [gray |-> gray, steps |-> <<>>, pixels |-> gray]
            /\ cvOpts' = <<SilhouetteOptions(cvSettings, hasCleanupOptions)>>
    /\ \E t \in TraceOutcomes, vb \in ViewBoxes(cvWidth, cvHeight) :
        IF t.threw
        THEN /\ cvpc' = "thrown"
             /\ UNCHANGED cvResult
        ELSE /\ cvResult' = SingleLayerResult(<<"Silhouette">>, t, vb)
             /\ cvpc' = "ret"
    /\ UNCHANGED <<cvImage, cvWidth, cvHeight, cvSettings,
                   cleanupVars, quantVars, multiVars, routeVars, lloydVars, dimVars, simpVars,
                   smoothVars, jimpVars, histVars, appVars>>

\* convert in lineart mode: processLineart, then the stats
ConvertLineart ==
    /\ cvpc = "call"
    /\ cvSettings.mode = "lineart"
    /\ cvOpts' = <<LineartOptions(cvSettings)>>
    /\ \E t \in TraceOutcomes, vb \in ViewBoxes(cvWidth, cvHeight) :
        IF t.threw
        THEN /\ cvpc' = "thrown"
             /\ UNCHANGED cvResult
        ELSE /\ cvResult' = SingleLayerResult(<<"Line Art">>, t, vb)
             /\ cvpc' = "ret"
    /\ UNCHANGED <<cvImage, cvWidth, cvHeight, cvSettings, silTraced,
                   cleanupVars, quantVars, multiVars, routeVars, lloydVars, dimVars, simpVars,
                   smoothVars, jimpVars, histVars, appVars>>

\* convert in multicolor mode, up to the palette: processMulticolor is entered
\* and kMeansQuantize(pixels, settings.colorLayers) has returned
ConvertMulticolor ==
    /\ cvpc = "call"
    /\ cvSettings.mode = "multicolor"
    /\ mpc = "idle"
    /\ \E q \in kMeansQuantize(cvImage, cvSettings.colorLayers, DefaultMaxIterations, TRUE) :
        /\ palette' = q.palette
        /\ mcAssignments' = q.assignments
    /\ mcSettings' = cvSettings
    /\ mcWidth' = cvWidth
    /\ mcHeight' = cvHeight
    /\ mpc' = "call"
    /\ cvpc' = "multi"
    /\ UNCHANGED <<cvImage, cvWidth, cvHeight, cvSettings, cvOpts, cvResult, silTraced,
                   sortedPalette, paletteMap, colorIndex, allLayerPaths, traces, mcLayers,
                   mcOpts, mcSvg, mcMasks,
                   cleanupVars, quantVars, routeVars, lloydVars, dimVars, simpVars,
                   smoothVars, jimpVars, histVars, appVars>>

\* processMulticolor has returned: the stats, and convert returns
ConvertMulticolorReturn ==
    /\ cvpc = "multi"
    /\ mpc = "ret"
    /\ cvResult' = [svg    |-> mcSvg,
                    layers |-> mcLayers,
                    stats  |-> ConversionStats(mcSvg, cvSettings, cvWidth, cvHeight)]
    /\ cvpc' = "ret"
    /\ UNCHANGED <<cvImage, cvWidth, cvHeight, cvSettings, cvOpts, silTraced,
                   cleanupVars, quantVars, multiVars, routeVars, lloydVars, dimVars, simpVars,
                   smoothVars, jimpVars, histVars, appVars>>

OthersIdleForConvert ==
    /\ CleanupIdle
    /\ RestIdle
    /\ QuantIdle
    /\ MultiIdle
    /\ RouteIdle
    /\ LloydIdle
    /\ DimIdle
    /\ SimpIdle

InitConvertWith(image, w, h, st) ==
    /\ OthersIdleForConvert
    /\ cvImage = image
    /\ cvWidth = w
    /\ cvHeight = h
    /\ cvSettings = st
    /\ cvpc = "call"
    /\ cvOpts = <<>>
    /\ cvResult = <<>>
    /\ silTraced = <<>>

\* target sizes: whole, fractional, the largest the route lets through
TargetValues == {Frac(1, 10), Frac(3, 1), Frac(6, 1), Frac(47, 2), Frac(100, 1)}

\* opaque pixels of the base colours, and a transparent one
CvPixelValues == OpaqueBase \cup {[r |-> 0, g |-> 0, b |-> 0, a |-> AlphaCut]}

\* every image of MaxCvWidth x 1 pixels, every mode, 6 x 6 and 6 x 3 requested
InitConvert ==
    \E image \in [1 .. MaxCvWidth -> CvPixelValues] :
      \E mode \in {"silhouette", "multicolor", "lineart"}, th \in {Frac(6, 1), Frac(3, 1)} :
        InitConvertWith(image, MaxCvWidth, 1,
                        ConvertSettings(mode, 50, MinColorLayers, Frac(6, 1), th, "inches"))

NextConvert ==
    \/ ConvertSilhouette
    \/ ConvertLineart
    \/ ConvertMulticolor
    \/ StartMulticolor
    \/ TraceColour
    \/ FinishMulticolor
    \/ ConvertMulticolorReturn

SpecConvert == InitConvert /\ [][NextConvert]_vars

\* every detail value, every mode, one one-pixel image
InitDetail ==
    \E mode \in {"silhouette", "multicolor", "lineart"}, detail \in 0 .. MaxDetail :
      InitConvertWith(<<[r |-> 0, g |-> 0, b |-> 0, a |-> 255]>>, 1, 1,
                      ConvertSettings(mode, detail, MinColorLayers, Frac(6, 1), Frac(6, 1),
                                      "inches"))

SpecDetail == InitDetail /\ [][NextConvert]_vars

\* silhouette mode with every combination of the cleanup options, with and
\* without a configured threshold
InitSilhouette ==
    \E s \in CleanupSettings({<<>>, <<0>>, <<DarkGrey>>, <<MaxThreshold>>}, BOOLEAN, 0 .. 1,
                             BOOLEAN, {0, MaxRegionTenths}) :
      InitConvertWith(<<[r |-> 0, g |-> 0, b |-> 0, a |-> 255],
                        [r |-> 255, g |-> 255, b |-> 255, a |-> 255]>>, 2, 1,
                      [ConvertSettings("silhouette", 50, MinColorLayers, Frac(6, 1),
                                       Frac(6, 1), "inches")
                          EXCEPT !.threshold = s.threshold,
                                 !.invert = s.invert,
                                 !.erosionLevel = s.erosionLevel,
                                 !.removeEdgeRegions = s.removeEdgeRegions,
                                 !.minRegionSize = s.minRegionSize])

NextSilhouette == ConvertSilhouette

SpecSilhouette == InitSilhouette /\ [][NextSilhouette]_vars

(***************************************************************************)
(* Part 6  calculateOutputDimensions called on its own                     *)
(***************************************************************************)
CalculateOutputDimensions ==
    /\ dim # <<>>
    /\ dim.pc = "call"
    /\ dim' = [dim EXCEPT !.pc  = "ret",
                          !.out = calculateOutputDimensions(dim.sourceWidth, dim.sourceHeight,
                                                            dim.settings)]
    /\ UNCHANGED <<cleanupVars, quantVars, multiVars, routeVars, lloydVars, convVars, simpVars,
                   smoothVars, jimpVars, histVars, appVars>>

InitDim ==
    /\ CleanupIdle
    /\ RestIdle
    /\ QuantIdle
    /\ MultiIdle
    /\ RouteIdle
    /\ LloydIdle
    /\ ConvIdle
    /\ SimpIdle
    /\ \E sw \in 1 .. MaxSource, sh \in 1 .. MaxSource, tw \in TargetValues, th \in TargetValues :
        dim = [sourceWidth |-> sw, sourceHeight |-> sh,
               settings |-> ConvertSettings("silhouette", 50, 4, tw, th, "inches"),
               pc |-> "call", out |-> <<>>]

NextDim == CalculateOutputDimensions

SpecDim == InitDim /\ [][NextDim]_vars

(***************************************************************************)
(* Part 7  pathUtils: simplifyPath (Douglas-Peucker)                       *)
(*                                                                         *)
(* Points have whole coordinates.  Distances are compared by their         *)
(* squares, which are fractions: perpendicularDistance is the square root  *)
(* of DistanceSquared, and the tolerance is not negative.                  *)
(***************************************************************************)
Square(n) == n * n

\* perpendicularDistance(point, lineStart, lineEnd), squared: the distance to
\* the nearest point of the segment (t clamped to 0..1)
DistanceSquared(point, lineStart, lineEnd) ==
    LET dx   == lineEnd.x - lineStart.x
        dy   == lineEnd.y - lineStart.y
        den  == dx * dx + dy * dy
        tnum == (point.x - lineStart.x) * dx + (point.y - lineStart.y) * dy
    IN  IF dx = 0 /\ dy = 0
        THEN Frac(Square(point.x - lineStart.x) + Square(point.y - lineStart.y), 1)
        ELSE IF tnum < 0
        THEN Frac(Square(point.x - lineStart.x) + Square(point.y - lineStart.y), 1)
        ELSE IF tnum > den
        THEN Frac(Square(point.x - lineEnd.x) + Square(point.y - lineEnd.y), 1)
        ELSE Frac(Square((point.x - lineStart.x) * den - tnum * dx)
                  + Square((point.y - lineStart.y) * den - tnum * dy),
                  den * den)

\* the loop over the interior points: [maxDist (squared), maxIndex (0-based)]
RECURSIVE FarthestFrom(_, _, _)
FarthestFrom(points, i, best) ==
    IF i > Len(points) - 1 THEN best
    ELSE LET dist == DistanceSquared(points[i], points[1], points[Len(points)])
         IN  FarthestFrom(points, i + 1,
                          IF FracLess(best.maxDist, dist)
                          THEN [maxDist |-> dist, maxIndex |-> i - 1]
                          ELSE best)

\* mutant: the split point is left out of the result
RECURSIVE simplifyPathDropSplit(_, _)
simplifyPathDropSplit(points, tolerance) ==
    IF Len(points) <= 2 THEN points
    ELSE LET far == FarthestFrom(points, 2, [maxDist |-> Frac(0, 1), maxIndex |-> 0])
         IN  IF FracLess(FracMul(tolerance, tolerance), far.maxDist)
             THEN LET leftPoints  == simplifyPathDropSplit(SubSeq(points, 1, far.maxIndex + 1),
                                                           tolerance)
                      rightPoints == simplifyPathDropSplit(SubSeq(points, far.maxIndex + 1,
                                                                  Len(points)), tolerance)
                  IN  SubSeq(leftPoints, 1, Len(leftPoints) - 1)
                      \o SubSeq(rightPoints, 2, Len(rightPoints))
             ELSE <<points[1], points[Len(points)]>>

RECURSIVE simplifyPath(_, _)
simplifyPath(points, tolerance) ==
    IF Len(points) <= 2 THEN points
    ELSE LET far == FarthestFrom(points, 2, [maxDist |-> Frac(0, 1), maxIndex |-> 0])
         IN  IF FracLess(FracMul(tolerance, tolerance), far.maxDist)
             THEN LET leftPoints  == simplifyPath(SubSeq(points, 1, far.maxIndex + 1), tolerance)
                      rightPoints == simplifyPath(SubSeq(points, far.maxIndex + 1, Len(points)),
                                                  tolerance)
                  IN  SubSeq(leftPoints, 1, Len(leftPoints) - 1) \o rightPoints
             ELSE <<points[1], points[Len(points)]>>

SimplifyPath ==
    /\ simp # <<>>
    /\ simp.pc = "call"
    /\ simp' = [simp EXCEPT !.pc = "ret",
                            !.result = simplifyPath(simp.points, simp.tolerance)]
    /\ UNCHANGED <<cleanupVars, quantVars, multiVars, routeVars, lloydVars, convVars, dimVars,
                   smoothVars, jimpVars, histVars, appVars>>

GridPoints == [x : 0 .. 2, y : 0 .. 1]

Tolerances == {Frac(0, 1), Frac(1, 2), Frac(1, 1), Frac(2, 1)}

InitSimp ==
    /\ CleanupIdle
    /\ RestIdle
    /\ QuantIdle
    /\ MultiIdle
    /\ RouteIdle
    /\ LloydIdle
    /\ ConvIdle
    /\ DimIdle
    /\ \E n \in 0 .. MaxPoints :
         \E points \in [1 .. n -> GridPoints], tolerance \in Tolerances :
            simp = [points |-> points, tolerance |-> tolerance, pc |-> "call", result |-> <<>>]

NextSimp == SimplifyPath

SpecSimp == InitSimp /\ [][NextSimp]_vars

(***************************************************************************)
(* Part 8  the k-means loop of kMeansQuantize, one round per step          *)
(*                                                                         *)
(* lloyd = [sample, k, useLab, maxIterations, centroids, assignments,      *)
(* iter, trail, pc]; trail holds newAssignments of every round so far.     *)
(***************************************************************************)
\* mutant: no `if (!changed) break`
LloydRoundNoBreak ==
    /\ lloyd # <<>>
    /\ lloyd.pc = "loop"
    /\ lloyd.iter < lloyd.maxIterations
    /\ LET newAssignments ==
               [n \in 1 .. Len(lloyd.sample) |->
                   NearestIndex(lloyd.sample[n], lloyd.centroids, lloyd.useLab)]
       IN  lloyd' = [lloyd EXCEPT !.assignments = newAssignments,
                                  !.trail = Append(lloyd.trail, newAssignments),
                                  !.centroids = UpdateCentroids(lloyd.centroids, lloyd.sample,
                                                                newAssignments, lloyd.k),
                                  !.iter = lloyd.iter + 1]
    /\ UNCHANGED <<cleanupVars, quantVars, multiVars, routeVars, convVars, dimVars, simpVars,
                   smoothVars, jimpVars, histVars, appVars>>

\* for (iter < maxIterations): one pass of the body
LloydRound ==
    /\ lloyd # <<>>
    /\ lloyd.pc = "loop"
    /\ lloyd.iter < lloyd.maxIterations
    /\ LET newAssignments ==
               [n \in 1 .. Len(lloyd.sample) |->
                   NearestIndex(lloyd.sample[n], lloyd.centroids, lloyd.useLab)]
           changed == \E n \in 1 .. Len(lloyd.sample) :
                          newAssignments[n] # lloyd.assignments[n]
       IN  lloyd' =
             IF ~changed
             THEN [lloyd EXCEPT !.assignments = newAssignments,
                                !.trail = Append(lloyd.trail, newAssignments),
                                !.pc = "done"]
             ELSE [lloyd EXCEPT !.assignments = newAssignments,
                                !.trail = Append(lloyd.trail, newAssignments),
                                !.centroids = UpdateCentroids(lloyd.centroids, lloyd.sample,
                                                              newAssignments, lloyd.k),
                                !.iter = lloyd.iter + 1]
    /\ UNCHANGED <<cleanupVars, quantVars, multiVars, routeVars, convVars, dimVars, simpVars,
                   smoothVars, jimpVars, histVars, appVars>>

\* iter < maxIterations is false: the loop is left
LloydExit ==
    /\ lloyd # <<>>
    /\ lloyd.pc = "loop"
    /\ lloyd.iter >= lloyd.maxIterations
    /\ lloyd' = [lloyd EXCEPT !.pc = "done"]
    /\ UNCHANGED <<cleanupVars, quantVars, multiVars, routeVars, convVars, dimVars, simpVars,
                   smoothVars, jimpVars, histVars, appVars>>

InitLloyd ==
    /\ CleanupIdle
    /\ RestIdle
    /\ QuantIdle
    /\ MultiIdle
    /\ RouteIdle
    /\ ConvIdle
    /\ DimIdle
    /\ SimpIdle
    /\ \E n \in 1 .. MaxLloydPixels :
         \E sample \in [1 .. n -> OpaqueBase], k \in 1 .. MaxLloydK, useLab \in BOOLEAN,
            maxIterations \in {1, 2, DefaultMaxIterations} :
           \E centroids \in initializeCentroids(sample, k, useLab) :
              lloyd = [sample |-> sample, k |-> k, useLab |-> useLab,
                       maxIterations |-> maxIterations, centroids |-> centroids,
                       assignments |-> [i \in 1 .. n |-> 0], iter |-> 0,
                       trail |-> <<>>, pc |-> "loop"]

NextLloyd == LloydRound \/ LloydExit

SpecLloyd == InitLloyd /\ [][NextLloyd]_vars /\ WF_vars(NextLloyd)

(***************************************************************************)
(* Part 9  pathUtils: smoothPath (Chaikin corner cutting)                  *)
(*                                                                         *)
(* A round puts points at 25% and 75% of every segment, so coordinates     *)
(* leave the whole numbers.  A path is held as [scale, points]: the        *)
(* coordinates are points[i].x / scale, points[i].y / scale, and a round   *)
(* multiplies the scale by 4 (p0 * 0.75 + p1 * 0.25 = (3 p0 + p1) / 4,     *)
(* which is exact in binary floating point for the coordinates used).      *)
(***************************************************************************)
\* a point carried over to the next scale
Rescale(p) == [x |-> 4 * p.x, y |-> 4 * p.y]

\* the two points pushed for segment k of `smoothed`, in order
CutPoints(smoothed) ==
    [i \in 1 .. 2 * (Len(smoothed) - 1) |->
        LET p0 == smoothed[(i + 1) \div 2]
            p1 == smoothed[(i + 1) \div 2 + 1]
        IN  IF i % 2 = 1
            THEN [x |-> 3 * p0.x + p1.x, y |-> 3 * p0.y + p1.y]
            ELSE [x |-> p0.x + 3 * p1.x, y |-> p0.y + 3 * p1.y]]

\* mutant: no `Keep endpoints` block
SmoothRoundNoEndpoints(smoothed) == CutPoints(smoothed)

\* one pass of the for (iter ...) body: newPoints
SmoothRound(smoothed) ==
    IF Len(smoothed) > 0
    THEN <<Rescale(smoothed[1])>> \o CutPoints(smoothed)
             \o <<Rescale(smoothed[Len(smoothed)])>>
    ELSE CutPoints(smoothed)

\* `smoothed` after each of the first `iterations` rounds
RECURSIVE SmoothRounds(_, _)
SmoothRounds(points, iterations) ==
    IF iterations <= 0
    THEN <<>>
    ELSE LET before == SmoothRounds(points, iterations - 1)
             last   == IF before = <<>> THEN [scale |-> 1, points |-> points]
                       ELSE before[Len(before)]
         IN  Append(before, [scale |-> 4 * last.scale, points |-> SmoothRound(last.points)])

smoothPath(points, iterations) ==
    IF Len(points) <= 2 \/ iterations <= 0
    THEN [scale |-> 1, points |-> points]
    ELSE SmoothRounds(points, iterations)[iterations]

SmoothPath ==
    /\ smooth # <<>>
    /\ smooth.pc = "call"
    /\ smooth' = [smooth EXCEPT
                     !.pc = "ret",
                     !.rounds = IF Len(smooth.points) <= 2 \/ smooth.iterations <= 0
                                THEN <<>>
                                ELSE SmoothRounds(smooth.points, smooth.iterations),
                     !.result = smoothPath(smooth.points, smooth.iterations)]
    /\ UNCHANGED <<cleanupVars, quantVars, multiVars, routeVars, lloydVars, convVars, dimVars,
                   simpVars, jimpVars, histVars, appVars>>

InitSmooth ==
    /\ CleanupIdle
    /\ JimpIdle
    /\ HistIdle
    /\ AppIdle
    /\ QuantIdle
    /\ MultiIdle
    /\ RouteIdle
    /\ LaterIdle
    /\ smooth \in
         UNION { [points : [1 .. n -> GridPoints], iterations : -1 .. MaxSmoothIterations,
                  pc : {"call"}, rounds : {<<>>}, result : {<<>>}] : n \in 0 .. MaxSmoothPoints }

NextSmooth == SmoothPath

SpecSmooth == InitSmooth /\ [][NextSmooth]_vars

(***************************************************************************)
(* Part 10  the Jimp-based Vectorizer: processMulticolor from the trace    *)
(*          on (parseSVGPaths, the area filter, the layers)                *)
(*                                                                         *)
(* jm = [settings, width, height, sortedPalette, colorIndex, parsed,       *)
(* layers, pc].  A path is [scale, points] as in Part 9.  What potrace and *)
(* parsePathD yield for a colour is any sequence of the paths of           *)
(* JimpRawPaths, or a rejection.  minAreaThreshold is in tenths of a       *)
(* percent.                                                                *)
(***************************************************************************)
Abs(n) == IF n < 0 THEN -n ELSE n

\* area += points[i].x * points[j].y - points[j].x * points[i].y, i = 0 .. n-1
RECURSIVE ShoelaceSum(_, _)
ShoelaceSum(points, i) ==
    IF i > Len(points) THEN 0
    ELSE LET j == (i % Len(points)) + 1
         IN  points[i].x * points[j].y - points[j].x * points[i].y
             + ShoelaceSum(points, i + 1)

\* calculatePolygonArea of a path at scale `scale`, as a fraction
calculatePolygonArea(path) ==
    IF Len(path.points) < 3 THEN Frac(0, 1)
    ELSE Frac(Abs(ShoelaceSum(path.points, 1)), 2 * path.scale * path.scale)

\* parseSVGPaths for one path with more than two points: smooth, simplify
ProcessPoints(points, st) ==
    LET smoothIterations == st.smoothing \div 25
        smoothed  == IF smoothIterations > 0 THEN smoothPath(points, smoothIterations)
                     ELSE [scale |-> 1, points |-> points]
        tolerance == Frac(100 - st.detail, 10)
    IN  IF FracLess(Frac(0, 1), tolerance)
        THEN [scale  |-> smoothed.scale,
              points |-> simplifyPath(smoothed.points,
                                      FracMul(tolerance, Frac(smoothed.scale, 1)))]
        ELSE smoothed

\* parseSVGPaths: the paths with more than two points, processed
MoreThanTwo(points) == Len(points) > 2

parseSVGPaths(raw, st) ==
    LET long == SelectSeq(raw, MoreThanTwo)
    IN  [i \in 1 .. Len(long) |-> ProcessPoints(long[i], st)]

\* minArea = (width * height * settings.minAreaThreshold) / 100
MinArea(w, h, st) == Frac(w * h * st.minAreaThreshold, 1000)

\* mutant: nothing is filtered
filterByAreaNone(paths, minArea) == paths

\* paths.filter(path => calculatePolygonArea(path.points) >= minArea)
filterByArea(paths, minArea) ==
    LET Large(path) == ~FracLess(calculatePolygonArea(path), minArea)
    IN  SelectSeq(paths, Large)

Pt(x, y) == [x |-> x, y |-> y]

\* a two-point path, a triangle, the unit square and the whole 2 x 1 bitmap
JimpRawPaths ==
    { <<Pt(0, 0), Pt(1, 0)>>,
      <<Pt(0, 0), Pt(1, 0), Pt(0, 1)>>,
      <<Pt(0, 0), Pt(1, 0), Pt(1, 1), Pt(0, 1)>>,
      <<Pt(0, 0), Pt(2, 0), Pt(2, 1), Pt(0, 1)>> }

JimpTraces ==
    {[threw |-> TRUE, raw |-> <<>>]}
    \cup UNION { {[threw |-> FALSE, raw |-> raw] : raw \in [1 .. n -> JimpRawPaths]} :
                 n \in 0 .. MaxJimpPaths }

\* one pass of the loop over sortedPalette: trace, parse, filter, push
JimpTraceColour ==
    /\ jm # <<>>
    /\ jm.pc = "loop"
    /\ jm.colorIndex < Len(jm.sortedPalette)
    /\ \E t \in JimpTraces :
        LET paths         == parseSVGPaths(t.raw, jm.settings)
            minArea       == MinArea(jm.width, jm.height, jm.settings)
            filteredPaths == filterByArea(paths, minArea)
        IN  jm' = [jm EXCEPT
                      !.parsed = Append(jm.parsed, [threw |-> t.threw, paths |-> paths]),
                      !.layers = IF ~t.threw /\ Len(filteredPaths) > 0
                                 THEN Append(jm.layers,
                                             [id    |-> <<"layer", jm.colorIndex>>,
                                              name  |-> <<"Color", jm.colorIndex + 1>>,
                                              color |-> rgbToHex(jm.sortedPalette[jm.colorIndex + 1]),
                                              paths |-> filteredPaths])
                                 ELSE jm.layers,
                      !.colorIndex = jm.colorIndex + 1]
    /\ UNCHANGED <<cleanupVars, quantVars, multiVars, routeVars, lloydVars, convVars, dimVars,
                   simpVars, smoothVars, histVars, appVars>>

\* return layers
JimpReturn ==
    /\ jm # <<>>
    /\ jm.pc = "loop"
    /\ jm.colorIndex >= Len(jm.sortedPalette)
    /\ jm' = [jm EXCEPT !.pc = "ret"]
    /\ UNCHANGED <<cleanupVars, quantVars, multiVars, routeVars, lloydVars, convVars, dimVars,
                   simpVars, smoothVars, histVars, appVars>>

\* a 2 x 1 image, palettes of one and two colours, no filter / the default
\* 0.1% / 50%, smoothing off and one round, simplification off and tolerance 1
InitJimp ==
    /\ CleanupIdle
    /\ SmoothIdle
    /\ HistIdle
    /\ AppIdle
    /\ QuantIdle
    /\ MultiIdle
    /\ RouteIdle
    /\ LaterIdle
    /\ \E minAreaThreshold \in {0, 1, 500}, smoothing \in {0, 25}, detail \in {90, MaxDetail},
          sorted \in {<<RGB(0, 0, 0)>>, <<RGB(0, 0, 0), White>>} :
        jm = [settings |-> [ConvertSettings("multicolor", detail, MinColorLayers, Frac(6, 1),
                                            Frac(6, 1), "inches")
                               EXCEPT !.minAreaThreshold = minAreaThreshold,
                                      !.smoothing = smoothing],
              width |-> 2, height |-> 1, sortedPalette |-> sorted, colorIndex |-> 0,
              parsed |-> <<>>, layers |-> <<>>, pc |-> "loop"]

NextJimp == JimpTraceColour \/ JimpReturn

SpecJimp == InitJimp /\ [][NextJimp]_vars

(***************************************************************************)
(* Part 11  the useHistory hook (frontend/src/hooks/useHistory.ts)         *)
(*                                                                         *)
(* hist = [past, present, future, maxHistoryLength, calls, trail].  The    *)
(* state type T is number: two ordinary numbers, NaN and Infinity, written *)
(* as their JavaScript source text.  trail holds, for the last two calls,  *)
(* the call and the history it found.  Each call runs its setHistory       *)
(* updater on the history the previous call left.                          *)
(***************************************************************************)
NumberValues == {"0", "1", "NaN", "Infinity"}

\* JSON.stringify of a number: NaN and Infinity are written as null
JSON_stringify(v) == IF v \in {"NaN", "Infinity"} THEN "null" ELSE v

\* mutant: the states themselves are compared
SameStateStrict(a, b) == a = b

\* JSON.stringify(resolvedState) === JSON.stringify(prev.present)
SameState(a, b) == JSON_stringify(a) = JSON_stringify(b)

\* array.slice(-n) for n >= 0: the last n entries, and the whole array for
\* n = 0, as -0 is 0
SliceLast(array, n) ==
    IF n = 0 \/ n >= Len(array) THEN array
    ELSE SubSeq(array, Len(array) - n + 1, Len(array))

History(past, present, future) == [past |-> past, present |-> present, future |-> future]

\* the (prev: T) => T functions a caller passes
Updaters == {[v \in NumberValues |-> v], [v \in NumberValues |-> "1"]}

\* what a caller passes to setState: a value, held as the function that
\* returns it, or a function
NewStates ==
    {[fn |-> FALSE, value |-> [p \in NumberValues |-> v]] : v \in NumberValues}
    \cup {[fn |-> TRUE, value |-> f] : f \in Updaters}

Resolve(newState, present) ==
    newState.value[present]

\* the updater of setState
setState(prev, newState, maxHistoryLength) ==
    LET resolvedState == Resolve(newState, prev.present)
    IN  IF SameState(resolvedState, prev.present)
        THEN prev
        ELSE History(SliceLast(Append(prev.past, prev.present), maxHistoryLength),
                     resolvedState, <<>>)

\* the updater of undo
undo(prev) ==
    IF Len(prev.past) = 0 THEN prev
    ELSE History(SubSeq(prev.past, 1, Len(prev.past) - 1),
                 prev.past[Len(prev.past)],
                 <<prev.present>> \o prev.future)

\* mutant: the present is not put back on the past
redoDropPresent(prev) ==
    IF Len(prev.future) = 0 THEN prev
    ELSE History(prev.past, prev.future[1], Tail(prev.future))

\* the updater of redo
redo(prev) ==
    IF Len(prev.future) = 0 THEN prev
    ELSE History(Append(prev.past, prev.present), prev.future[1], Tail(prev.future))

reset(newState) == History(<<>>, newState, <<>>)

HistoryOf(h) == History(h.past, h.present, h.future)

\* the hook after a call that left history `next`
Called(op, resolved, next) ==
    [hist EXCEPT !.past = next.past, !.present = next.present, !.future = next.future,
                 !.calls = hist.calls + 1,
                 !.trail = SliceLast(Append(hist.trail,
                                            [op |-> op, resolved |-> resolved,
                                             before |-> HistoryOf(hist)]), 2)]

HistFrame ==
    UNCHANGED <<cleanupVars, quantVars, multiVars, routeVars, lloydVars, convVars, dimVars,
                simpVars, smoothVars, jimpVars, appVars>>

SetState ==
    /\ hist # <<>>
    /\ hist.calls < MaxCalls
    /\ \E newState \in NewStates :
        hist' = Called("setState", Resolve(newState, hist.present),
                       setState(HistoryOf(hist), newState, hist.maxHistoryLength))
    /\ HistFrame

Undo ==
    /\ hist # <<>>
    /\ hist.calls < MaxCalls
    /\ hist' = Called("undo", hist.present, undo(HistoryOf(hist)))
    /\ HistFrame

Redo ==
    /\ hist # <<>>
    /\ hist.calls < MaxCalls
    /\ hist' = Called("redo", hist.present, redo(HistoryOf(hist)))
    /\ HistFrame

Reset ==
    /\ hist # <<>>
    /\ hist.calls < MaxCalls
    /\ \E newState \in NumberValues :
        hist' = Called("reset", newState, reset(newState))
    /\ HistFrame

\* useHistory(initialState, maxHistoryLength): no limit kept, 1, 2, the default
InitHist ==
    /\ CleanupIdle
    /\ SmoothIdle
    /\ JimpIdle
    /\ AppIdle
    /\ QuantIdle
    /\ MultiIdle
    /\ RouteIdle
    /\ LaterIdle
    /\ \E initialState \in NumberValues, maxHistoryLength \in {0, 1, 2, DefaultMaxHistory} :
        hist = [past |-> <<>>, present |-> initialState, future |-> <<>>,
                maxHistoryLength |-> maxHistoryLength, calls |-> 0, trail |-> <<>>]

NextHist == SetState \/ Undo \/ Redo \/ Reset

SpecHist == InitHist /\ [][NextHist]_vars

(***************************************************************************)
(* Part 12  the frontend App: image selection and conversion requests      *)
(*                                                                         *)
(* app = [originalImage, svgData, conversionStatus, error, stats,          *)
(* pending, selected, generated].  Images are numbered in the order they   *)
(* are selected; NoFile is the null file.  pending holds the convertImage  *)
(* calls that have not settled, each with the file its handleGenerate      *)
(* closure captured.  A result is written as the number of the image it    *)
(* was made from.                                                          *)
(***************************************************************************)
NoFile == 0

AppFrame ==
    UNCHANGED <<cleanupVars, quantVars, multiVars, routeVars, lloydVars, convVars, dimVars,
                simpVars, smoothVars, jimpVars, histVars>>

isProcessing == app.conversionStatus = "processing"
hasImage == app.originalImage.file # NoFile

\* the upload component calls onImageSelect whatever the conversion status
HandleImageSelect ==
    /\ app # <<>>
    /\ app.selected < MaxSelects
    /\ app' = [app EXCEPT !.originalImage = [file |-> app.selected + 1],
                          !.svgData = [raw |-> NoFile, layers |-> <<>>],
                          !.conversionStatus = "idle",
                          !.error = FALSE,
                          !.stats = NoFile,
                          !.selected = app.selected + 1]
    /\ AppFrame

\* the Generate button (disabled={!hasImage || isProcessing}) up to the await
HandleGenerate ==
    /\ app # <<>>
    /\ hasImage /\ ~isProcessing
    /\ app.generated < MaxGenerates
    /\ app' = [app EXCEPT !.conversionStatus = "processing",
                          !.error = FALSE,
                          !.pending = app.pending \cup
                              {[id |-> app.generated + 1, file |-> app.originalImage.file]},
                          !.generated = app.generated + 1]
    /\ AppFrame

\* convertImage resolves: the continuation after the await
ConvertResolves ==
    /\ app # <<>>
    /\ \E request \in app.pending :
        app' = [app EXCEPT !.svgData = [raw |-> request.file,
                                        layers |-> <<[of |-> request.file, visible |-> TRUE]>>],
                           !.conversionStatus = "success",
                           !.stats = request.file,
                           !.pending = app.pending \ {request}]
    /\ AppFrame

\* convertImage rejects: the catch block
ConvertRejects ==
    /\ app # <<>>
    /\ \E request \in app.pending :
        app' = [app EXCEPT !.conversionStatus = "error",
                           !.error = TRUE,
                           !.pending = app.pending \ {request}]
    /\ AppFrame

\* initialState
InitApp ==
    /\ CleanupIdle
    /\ SmoothIdle
    /\ JimpIdle
    /\ HistIdle
    /\ QuantIdle
    /\ MultiIdle
    /\ RouteIdle
    /\ LaterIdle
    /\ app = [originalImage |-> [file |-> NoFile],
              svgData |-> [raw |-> NoFile, layers |-> <<>>],
              conversionStatus |-> "idle", error |-> FALSE, stats |-> NoFile,
              pending |-> {}, selected |-> 0, generated |-> 0]

NextApp == HandleImageSelect \/ HandleGenerate \/ ConvertResolves \/ ConvertRejects

SpecApp == InitApp /\ [][NextApp]_vars

(***************************************************************************)
(* Properties of the cleanup pipeline.                                     *)
(***************************************************************************)
Ret == cpc = "ret"

XOf(i) == i % width
YOf(i) == i \div width

Border == {i \in Idx(width, height) :
              XOf(i) = 0 \/ XOf(i) = width - 1 \/ YOf(i) = 0 \/ YOf(i) = height - 1}

\* the buffer the step named `name` read / wrote in this run (it ran)
StepAt(name) == CHOOSE i \in 1 .. Len(stepsRun) : stepsRun[i] = name
Ranp(name) == \E i \in 1 .. Len(stepsRun) : stepsRun[i] = name
ReadBy(name) == bufs[StepAt(name)]
WrittenBy(name) == bufs[StepAt(name) + 1]

\* C3: after removeEdgeConnectedRegions no pixel of the first row, last row,
\* first column or last column is black.
C3_NoBlackOnBorder ==
    (Ret /\ Ranp("edge")) => \A i \in Border : WrittenBy("edge")[i] # BLACK

\* C3 witness: the input had a black border pixel, and a black pixel survived.
C3_Witness ==
    /\ Ret /\ Ranp("edge")
    /\ \E i \in Border : ReadBy("edge")[i] = BLACK
    /\ \E j \in Idx(width, height) : WrittenBy("edge")[j] = BLACK

\* the 4-connected black component of pixel i in buf: the least set holding i
\* and closed under black 4-neighbours
Neighbours4(i) ==
    {j \in Idx(width, height) :
        \/ YOf(j) = YOf(i) /\ (XOf(j) = XOf(i) + 1 \/ XOf(j) = XOf(i) - 1)
        \/ XOf(j) = XOf(i) /\ (YOf(j) = YOf(i) + 1 \/ YOf(j) = YOf(i) - 1)}

RECURSIVE Grow(_, _)
Grow(S, buf) ==
    LET more == S \cup {j \in Idx(width, height) :
                           buf[j] = BLACK /\ \E i \in S : j \in Neighbours4(i)}
    IN  IF more = S THEN S ELSE Grow(more, buf)

Component(i, buf) == Grow({i}, buf)

\* C4: removeSmallRegions whitens every 4-connected black component whose
\* pixel count is below minRegionSize% x width x height and leaves every
\* other component unchanged (minRegionSize is in tenths of a percent, so
\* count < tenths/1000 * width * height).
C4_SmallRegionsByPercent ==
    (Ret /\ Ranp("small")) =>
        \A i \in BlackSet(ReadBy("small")) :
            IF Cardinality(Component(i, ReadBy("small"))) * 1000
                   < settings.minRegionSize * width * height
            THEN WrittenBy("small")[i] = WHITE
            ELSE WrittenBy("small")[i] = BLACK

IsBinary(buf) == \A i \in DOMAIN buf : buf[i] \in {BLACK, WHITE}

SecondRunDone == Ret /\ Len(inputs) = 2

\* C5 as claimed: for any binary buffer and any threshold in 0..255,
\* threshold + invert applied twice with invert = true returns the original.
C5_DoubleInvertAnyThreshold ==
    (SecondRunDone /\ settings.invert /\ IsBinary(inputs[1])) => pixels = inputs[1]

\* C5 amended: for any binary buffer and any threshold in 1..255 (or none
\* configured: 128), threshold + invert applied twice with invert = true
\* returns the original buffer.
C5_DoubleInvertPositiveThreshold ==
    (SecondRunDone /\ settings.invert /\ IsBinary(inputs[1])
        /\ ThresholdOf(settings) >= 1) => pixels = inputs[1]

\* C5 witness: a second run ended on a buffer with both colours, threshold 255.
C5_Witness ==
    /\ SecondRunDone /\ settings.invert
    /\ ThresholdOf(settings) = MaxThreshold
    /\ \E i, j \in DOMAIN inputs[1] : inputs[1][i] = BLACK /\ inputs[1][j] = WHITE
    /\ inputs[2] # inputs[1]
    /\ pixels = inputs[1]

\* C6: for every N >= 1 the black pixels after N erosion iterations are a
\* subset of those after N-1 iterations.
C6_ErosionShrinks ==
    Ret => \A n \in 2 .. Len(iterBufs) :
               BlackSet(iterBufs[n]) \subseteq BlackSet(iterBufs[n - 1])

\* C6 witness: two iterations ran, black pixels are left after the second,
\* and each iteration removed some.
C6_Witness ==
    /\ Ret /\ Len(iterBufs) >= 3
    /\ BlackSet(iterBufs[3]) # {}
    /\ BlackSet(iterBufs[3]) # BlackSet(iterBufs[2])
    /\ BlackSet(iterBufs[2]) # BlackSet(iterBufs[1])

StepOrder == <<"threshold", "invert", "erosion", "edge", "small">>

StepEnabled(name) ==
    CASE name = "threshold" -> TRUE
      [] name = "invert"    -> settings.invert
      [] name = "erosion"   -> settings.erosionLevel > 0
      [] name = "edge"      -> settings.removeEdgeRegions
      [] name = "small"     -> settings.minRegionSize > 0

StepResult(name, buf) ==
    CASE name = "threshold" -> ApplyThreshold(buf, ThresholdOf(settings))
      [] name = "invert"    -> ApplyInvert(buf)
      [] name = "erosion"   -> applyErosion(buf, width, height, settings.erosionLevel)
      [] name = "edge"      -> removeEdgeConnectedRegions(buf, width, height)
      [] name = "small"     -> removeSmallRegions(buf, width, height, settings.minRegionSize)

\* C7: the steps run in the order threshold, invert, erosion, edge removal,
\* small-region removal; threshold always runs and each other step runs
\* exactly when its setting enables it; each step reads the buffer the
\* previous step that ran produced, and the last one produces the result.
C7_PipelineOrder ==
    Ret =>
        /\ stepsRun = SelectSeq(StepOrder, StepEnabled)
        /\ Len(bufs) = Len(stepsRun) + 1
        /\ bufs[1] = inputs[Len(inputs)]
        /\ \A i \in 1 .. Len(stepsRun) : bufs[i + 1] = StepResult(stepsRun[i], bufs[i])
        /\ pixels = bufs[Len(bufs)]

\* C7 witness: all five steps ran; erosion shrank the black region without
\* emptying it, edge removal read erosion's output, and small-region removal
\* read edge removal's output and whitened what was left.
C7_Witness ==
    /\ Ret /\ stepsRun = StepOrder
    /\ BlackSet(WrittenBy("erosion")) # {}
    /\ WrittenBy("erosion") # ReadBy("erosion")
    /\ ReadBy("edge") = WrittenBy("erosion")
    /\ ReadBy("small") = WrittenBy("edge")
    /\ WrittenBy("small") # ReadBy("small")

(***************************************************************************)
(* Properties of kMeansQuantize.                                           *)
(***************************************************************************)
QRet == qpc = "ret"

DistinctOpaque == {RGBOf(qPixels[n]) : n \in {m \in 1 .. Len(qPixels) : IsOpaque(qPixels[m])}}

\* C1: for any pixel buffer and any k >= 1 the returned palette is non-empty
\* and has exactly k entries, or fewer when the input has fewer distinct
\* opaque colours than k, and the assignment of every opaque pixel
\* (alpha > 128) is an index in 0 .. palette.length - 1.
C1_PaletteSizeAndOpaqueAssignments ==
    QRet =>
        /\ Len(qResult.palette) >= 1
        /\ \/ Len(qResult.palette) = qK
           \/ /\ Len(qResult.palette) < qK
              /\ Cardinality(DistinctOpaque) < qK
        /\ Len(qResult.assignments) = Len(qPixels)
        /\ \A n \in 1 .. Len(qPixels) :
               IsOpaque(qPixels[n]) =>
                   qResult.assignments[n] \in 0 .. (Len(qResult.palette) - 1)

\* three opaque pixels of two colours quantized with k = 3: a full palette
\* with a repeated entry, and a pixel assigned to an index above 0
C1_Witness ==
    /\ QRet
    /\ qK = MaxK
    /\ \A n \in 1 .. Len(qPixels) : IsOpaque(qPixels[n])
    /\ Cardinality(DistinctOpaque) = 2
    /\ Len(qResult.palette) = qK
    /\ \E n \in 1 .. Len(qPixels) : qResult.assignments[n] > 0

\* C2: for every input pixel buffer, every pixel with alpha <= 128 receives
\* assignment -1 in the returned assignment array.
C2_TransparentAlwaysMinusOne ==
    QRet =>
        \A n \in 1 .. Len(qPixels) :
            qPixels[n].a <= AlphaCut => qResult.assignments[n] = -1

(***************************************************************************)
(* Properties of processMulticolor.                                        *)
(***************************************************************************)
\* the colours (1-based positions in sortedPalette) traced so far with at
\* least one path
TracedWithPaths == {i \in 1 .. Len(traces) : ~traces[i].threw /\ traces[i].paths > 0}

\* the j-th smallest element of S
Nth(S, j) == CHOOSE i \in S : Cardinality({m \in S : m < i}) = j - 1

\* C8: when tracing one colour's mask fails only that colour's layer is
\* dropped: the conversion is never rejected, and on return the layers are
\* exactly the colours whose trace succeeded with at least one path, in
\* palette order, each named after its colour and carrying its paths.
C8_TraceFailureDropsOnlyThatLayer ==
    /\ mpc # "thrown"
    /\ mpc = "ret" =>
        /\ Len(traces) = Len(sortedPalette)
        /\ Len(mcLayers) = Cardinality(TracedWithPaths)
        /\ \A j \in 1 .. Len(mcLayers) :
               LET i == Nth(TracedWithPaths, j)
               IN  /\ mcLayers[j].name = <<"Color", i>>
                   /\ mcLayers[j].color = rgbToHex(sortedPalette[i])
                   /\ mcLayers[j].pathCount = traces[i].paths

\* three colours, the middle trace rejects, the outer two yield their layers
C8_Witness ==
    /\ mpc = "ret"
    /\ Len(traces) = 3
    /\ ~traces[1].threw /\ traces[1].paths > 0
    /\ traces[2].threw
    /\ ~traces[3].threw /\ traces[3].paths > 0
    /\ Len(mcLayers) = 2
    /\ mcLayers[2].name = <<"Color", 3>>

(***************************************************************************)
(* Properties of the route and of handleGenerate.                          *)
(***************************************************************************)
\* every setting inside its documented range or enum
InDocumentedRange(st) ==
    /\ st.mode \in {"silhouette", "multicolor", "lineart"}
    /\ st.detail \in 0 .. 100
    /\ st.smoothing \in 0 .. 100
    /\ st.colorLayers \in 2 .. 16
    /\ st.minAreaThreshold \in 0 .. 50
    /\ st.threshold \in 0 .. MaxThreshold
    /\ st.minRegionSize \in 0 .. MaxRegionTenths
    /\ st.erosionLevel \in 0 .. MaxErosionLevel
    /\ st.targetWidth \in 1 .. 100
    /\ st.targetHeight \in 1 .. 100
    /\ st.unit \in {"inches", "mm"}
    /\ st.background \in {"transparent", "remove", "keep"}

\* C9: every request whose settings hold a value outside its documented
\* range or enum is rejected with an error response before vectorizer.convert
\* is invoked.
C9_OutOfRangeRejectedBeforeConvert ==
    (req.settings = "json" /\ req.file /\ ~InDocumentedRange(MergeSettings(req.parsed))) =>
        /\ convertCalls = <<>>
        /\ rpc = "done" => /\ response.status = BadRequest
                           /\ "error" \in DOMAIN response.body

\* C10: a conversion that throws is reported with an error status carrying an
\* error message, a conversion that completes with a success response
\* carrying svg, layers and stats, whatever the number of layers and paths;
\* the App shows the first as 'error' with a message and the second as
\* 'success' with the SVG, so the two are never reported with the same status.
C10_ThrowAndCompletionReportedApart ==
    /\ (rpc = "done" /\ convOutcome = "threw") =>
        /\ ~ResponseOk(response)
        /\ "error" \in DOMAIN response.body
        /\ conversionStatus \in {"error", "success"} =>
            /\ conversionStatus = "error"
            /\ appError # <<>> /\ appError[1] # ""
    /\ (rpc = "done" /\ convOutcome = "completed") =>
        /\ ResponseOk(response)
        /\ {"svg", "layers", "stats"} \subseteq DOMAIN response.body
        /\ conversionStatus \in {"error", "success"} =>
            /\ conversionStatus = "success"
            /\ svgData = [raw |-> response.body.svg, layers |-> response.body.layers]

\* a conversion that completed with no layer and no path, shown as success
C10_Witness ==
    /\ rpc = "done"
    /\ convOutcome = "completed"
    /\ response.body.layers = 0
    /\ response.body.stats.totalPaths = 0
    /\ conversionStatus = "success"

(***************************************************************************)
(* Properties of Vectorizer.convert.                                       *)
(***************************************************************************)
CvRet == cvpc = "ret"

\* the <g> tags of an SVG text that hold no <path>
EmptyGroups(svg) ==
    {i \in 1 .. Len(svg) : svg[i].tag = "g" /\ (i = Len(svg) \/ svg[i + 1].tag # "path")}

\* C11: in every mode a conversion that succeeds returns no layer with
\* pathCount 0 and writes no group without a path: a layer whose trace yields
\* zero paths is left out.
C11_ZeroPathLayerOmitted ==
    CvRet =>
        /\ \A j \in 1 .. Len(cvResult.layers) : cvResult.layers[j].pathCount > 0
        /\ EmptyGroups(cvResult.svg) = {}

\* C12: for every conversion result stats.totalPaths is the sum of pathCount
\* over the returned layers and stats.totalPoints is the sum of pointCount
\* over the returned layers.
C12_StatsAreLayerSums ==
    CvRet =>
        LET layers == cvResult.layers
        IN  /\ cvResult.stats.totalPaths =
                   SumTo([j \in 1 .. Len(layers) |-> layers[j].pathCount], Len(layers))
            /\ cvResult.stats.totalPoints =
                   SumTo([j \in 1 .. Len(layers) |-> layers[j].pointCount], Len(layers))

(***************************************************************************)
(* Properties of calculateOutputDimensions.                                *)
(***************************************************************************)
DimRet == dim # <<>> /\ dim.pc = "ret"

FracLeq(a, b) == ~FracLess(b, a)

SourceAspect == Frac(dim.sourceWidth, dim.sourceHeight)

TargetAspect == FracDiv(dim.settings.targetWidth, dim.settings.targetHeight)

\* C13: for all positive source sizes and all positive target sizes the
\* output width and height calculateOutputDimensions returns are in the
\* ratio sourceWidth / sourceHeight (exactly, in exact arithmetic).
C13_AspectRatioPreserved ==
    DimRet => FracEq(FracDiv(dim.out.outputWidth, dim.out.outputHeight), SourceAspect)

\* a 1:4 source with 6 x 6 requested: the width was recomputed to 1.5
C13_Witness ==
    /\ DimRet
    /\ dim.sourceWidth = 1 /\ dim.sourceHeight = 4
    /\ dim.settings.targetWidth = Frac(6, 1) /\ dim.settings.targetHeight = Frac(6, 1)
    /\ FracEq(dim.out.outputWidth, Frac(3, 2))
    /\ FracEq(dim.out.outputHeight, Frac(6, 1))

\* C14: the correction only shrinks: neither output exceeds its target and
\* one of them is its target; the width is the one recomputed (from the
\* target height) when targetWidth / targetHeight exceeds the source aspect
\* ratio, otherwise the height (from the target width); 6 x 6 requested on a
\* 2:1 source gives 6 x 3.
C14_OnlyShrinksOneDimension ==
    DimRet =>
        LET tw == dim.settings.targetWidth
            th == dim.settings.targetHeight
            ow == dim.out.outputWidth
            oh == dim.out.outputHeight
        IN  /\ FracLeq(ow, tw)
            /\ FracLeq(oh, th)
            /\ FracEq(ow, tw) \/ FracEq(oh, th)
            /\ FracLess(SourceAspect, TargetAspect) =>
                   /\ FracEq(oh, th)
                   /\ FracEq(ow, FracMul(th, SourceAspect))
                   /\ FracLess(ow, tw)
            /\ ~FracLess(SourceAspect, TargetAspect) =>
                   /\ FracEq(ow, tw)
                   /\ FracEq(oh, FracDiv(tw, SourceAspect))
            /\ (FracEq(SourceAspect, Frac(2, 1)) /\ tw = Frac(6, 1) /\ th = Frac(6, 1)) =>
                   FracEq(ow, Frac(6, 1)) /\ FracEq(oh, Frac(3, 1))

\* 6 x 6 requested on a 2:1 source: 6 x 3 returned, the height reduced
C14_Witness ==
    /\ DimRet
    /\ dim.sourceWidth = 2 /\ dim.sourceHeight = 1
    /\ dim.settings.targetWidth = Frac(6, 1) /\ dim.settings.targetHeight = Frac(6, 1)
    /\ FracEq(dim.out.outputWidth, Frac(6, 1))
    /\ FracEq(dim.out.outputHeight, Frac(3, 1))
    /\ FracLess(dim.out.outputHeight, dim.settings.targetHeight)

(***************************************************************************)
(* Properties of simplifyPath.                                             *)
(***************************************************************************)
SimpRet == simp # <<>> /\ simp.pc = "ret"

\* the points of `points` at the indices K, in order
Keep(points, K) == [j \in 1 .. Cardinality(K) |-> points[Nth(K, j)]]

\* the nearest kept index below and above i
KeptBefore(K, i) == CHOOSE a \in K : a < i /\ \A b \in K : b < i => b <= a
KeptAfter(K, i) == CHOOSE a \in K : a > i /\ \A b \in K : b > i => a <= b

IsZero(x) == x[1] = 0

\* the interior points of `points` all lie within `tolerance` of the chord
\* from the first point to the last
WithinTolerance(points, tolerance) ==
    \A i \in 2 .. Len(points) - 1 :
        FracLeq(DistanceSquared(points[i], points[1], points[Len(points)]),
                FracMul(tolerance, tolerance))

\* C15: simplifyPath returns a subsequence of its input that keeps the first
\* and the last point (an input of fewer than two points is returned as it
\* is); when the tolerance is at least the largest deviation of the interior
\* points from the first-last chord the result is exactly the two endpoints;
\* with tolerance 0 every point left out has zero deviation from the chord
\* between the kept points around it.
C15_SimplifyKeepsEndpoints ==
    SimpRet =>
        LET points == simp.points
            result == simp.result
            n      == Len(points)
        IN  /\ n < 2 => result = points
            /\ n >= 2 =>
                /\ \E K \in SUBSET (1 .. n) :
                      /\ 1 \in K /\ n \in K
                      /\ result = Keep(points, K)
                      /\ IsZero(simp.tolerance) =>
                            \A i \in (1 .. n) \ K :
                                IsZero(DistanceSquared(points[i], points[KeptBefore(K, i)],
                                                       points[KeptAfter(K, i)]))
                /\ result[1] = points[1]
                /\ result[Len(result)] = points[n]
                /\ WithinTolerance(points, simp.tolerance) =>
                      result = <<points[1], points[n]>>

\* tolerance 0 on (0,0) (1,0) (2,0) (2,1): the corner (2,0) stays, the point
\* (1,0) on the chord to it goes
C15_Witness ==
    /\ SimpRet
    /\ IsZero(simp.tolerance)
    /\ simp.points = <<[x |-> 0, y |-> 0], [x |-> 1, y |-> 0], [x |-> 2, y |-> 0],
                       [x |-> 2, y |-> 1]>>
    /\ simp.result = <<[x |-> 0, y |-> 0], [x |-> 2, y |-> 0], [x |-> 2, y |-> 1]>>

(***************************************************************************)
(* Properties of the layer order in multicolor mode.                       *)
(***************************************************************************)
\* the luminance (times 1000) of a colour written as six hexadecimal digits
HexLuminance(hex) ==
    299 * (16 * hex[1] + hex[2]) + 587 * (16 * hex[3] + hex[4]) + 114 * (16 * hex[5] + hex[6])

\* the positions of the <g> tags of an SVG text
GroupTags(svg) == {i \in 1 .. Len(svg) : svg[i].tag = "g"}

\* C16: in multicolor mode the returned layers are in order of non-decreasing
\* luminance (0.299R + 0.587G + 0.114B) of their fill colour, and the groups
\* of the SVG are these layers in the same order: group j is layer-(j-1),
\* carries the name of layer j and paths filled with its colour.
C16_LayersByLuminance ==
    mpc = "ret" =>
        /\ \A j \in 1 .. Len(mcLayers) - 1 :
               HexLuminance(mcLayers[j].color) <= HexLuminance(mcLayers[j + 1].color)
        /\ Cardinality(GroupTags(mcSvg)) = Len(mcLayers)
        /\ \A j \in 1 .. Len(mcLayers) :
               LET g == Nth(GroupTags(mcSvg), j)
               IN  /\ mcSvg[g].attrs[1].value = TXT_LAYER \o Digits(j - 1)
                   /\ mcSvg[g].attrs[2].value = NameText(mcLayers[j].name)
                   /\ mcSvg[g + 1].tag = "path"
                   /\ mcSvg[g + 1].attrs[2].value = HexText(mcLayers[j].color)

\* the palette white, black, red comes back as the layers black, red, white
C16_Witness ==
    /\ mpc = "ret"
    /\ palette = <<RGB(255, 255, 255), RGB(0, 0, 0), RGB(255, 0, 0)>>
    /\ Len(mcLayers) = 3
    /\ mcLayers[1].color = rgbToHex(RGB(0, 0, 0))
    /\ mcLayers[2].color = rgbToHex(RGB(255, 0, 0))
    /\ mcLayers[3].color = rgbToHex(RGB(255, 255, 255))
    /\ Cardinality(GroupTags(mcSvg)) = 3

(***************************************************************************)
(* Properties of the tracer options.                                       *)
(***************************************************************************)
\* the options the processor of st.mode computes for the tracer
OptionsFor(st) ==
    IF st.mode = "silhouette" THEN SilhouetteOptions(st, FALSE)
    ELSE IF st.mode = "lineart" THEN LineartOptions(st)
    ELSE MulticolorOptions(st)

\* the options the tracer has been called with in this conversion
OptionsGiven == {cvOpts[i] : i \in 1 .. Len(cvOpts)} \cup {mcOpts[i] : i \in 1 .. Len(mcOpts)}

\* C17: in every mode, for detail values d1 <= d2 in 0..100, the turdSize and
\* the optTolerance the tracer is given for d2 are each at most those
\* computed for d1 (d2 is the detail of the running conversion).
C17_DetailMonotone ==
    \A o \in OptionsGiven :
        /\ o.turdSize = OptionsFor(cvSettings).turdSize
        /\ o.optTolerance = OptionsFor(cvSettings).optTolerance
        /\ \A d1 \in 0 .. cvSettings.detail :
               /\ o.turdSize <= OptionsFor([cvSettings EXCEPT !.detail = d1]).turdSize
               /\ o.optTolerance <= OptionsFor([cvSettings EXCEPT !.detail = d1]).optTolerance

\* lineart at detail 100: turdSize 2 and tolerance 0.2, against 20 and 2 at
\* detail 0
C17_Witness ==
    /\ cvpc = "ret"
    /\ cvSettings.mode = "lineart"
    /\ cvSettings.detail = MaxDetail
    /\ cvOpts = <<LineartOptions(cvSettings)>>
    /\ cvOpts[1].turdSize = 2
    /\ cvOpts[1].optTolerance = 200
    /\ OptionsFor([cvSettings EXCEPT !.detail = 0]).turdSize = 20
    /\ OptionsFor([cvSettings EXCEPT !.detail = 0]).optTolerance = 2000

(***************************************************************************)
(* Properties of the k-means loop.                                         *)
(***************************************************************************)
LloydDone == lloyd # <<>> /\ lloyd.pc = "done"

\* the assignments round r is compared with: those of round r - 1, and the
\* initial new Array(n).fill(0) for the first round
PrevRound(r) ==
    IF r = 1 THEN [i \in 1 .. Len(lloyd.sample) |-> 0] ELSE lloyd.trail[r - 1]

\* never more than maxIterations rounds; every round but the last changed the
\* assignments; the loop is only left after a round that changed nothing or
\* after maxIterations rounds
LloydRoundsBounded ==
    LET rounds == Len(lloyd.trail)
    IN  /\ rounds <= lloyd.maxIterations
        /\ \A r \in 1 .. rounds - 1 : lloyd.trail[r] # PrevRound(r)
        /\ (lloyd.pc = "loop" /\ rounds >= 1) => lloyd.trail[rounds] # PrevRound(rounds)
        /\ lloyd.pc = "done" =>
               \/ rounds = lloyd.maxIterations
               \/ rounds >= 1 /\ lloyd.trail[rounds] = PrevRound(rounds)

\* C18: the k-means iteration always terminates: it performs at most
\* maxIterations (default 20) assignment rounds and stops at the first round
\* whose assignments equal those of the round before (for the first round:
\* the initial all-zero assignments).
C18_KMeansTerminates == [](LloydRoundsBounded) /\ <>LloydDone

\* black and white pixels, centroids white and black, 20 rounds allowed: the
\* first round changes the assignments, the second repeats them and ends the
\* loop
C18_Witness ==
    /\ LloydDone
    /\ lloyd.maxIterations = DefaultMaxIterations
    /\ Len(lloyd.trail) = 2
    /\ lloyd.trail[1] # PrevRound(1)
    /\ lloyd.trail[2] = lloyd.trail[1]

(***************************************************************************)
(* Properties of applyErosion and removeEdgeConnectedRegions.              *)
(***************************************************************************)
\* the (2n+1) x (2n+1) window centred on pixel i lies inside the image and is
\* black throughout in buf
WindowBlack(i, n, buf) ==
    /\ XOf(i) - n >= 0 /\ XOf(i) + n <= width - 1
    /\ YOf(i) - n >= 0 /\ YOf(i) + n <= height - 1
    /\ \A dy \in -n .. n : \A dx \in -n .. n :
           buf[(YOf(i) + dy) * width + (XOf(i) + dx)] = BLACK

WithinOfBorder(i, n) ==
    \/ XOf(i) < n \/ XOf(i) > width - 1 - n
    \/ YOf(i) < n \/ YOf(i) > height - 1 - n

\* the black pixels of buf are one 3x3 square
IsBlackSquare(buf) ==
    /\ Cardinality(BlackSet(buf)) = 9
    /\ \E c \in BlackSet(buf) : WindowBlack(c, 1, buf)

\* C19: after applyErosion with N >= 1 iterations a pixel is black exactly
\* when the whole (2N+1)x(2N+1) window centred on it lies inside the image
\* and is black in the input; every other pixel is white, so every pixel
\* within N of the border is white, and a 3x3 black square leaves no black
\* pixel at erosionLevel 5.
C19_ErosionWindow ==
    (Ret /\ Ranp("erosion")) =>
        LET n   == settings.erosionLevel
            in  == ReadBy("erosion")
            out == WrittenBy("erosion")
        IN  /\ n >= 1
            /\ \A i \in Idx(width, height) :
                   /\ out[i] = (IF WindowBlack(i, n, in) THEN BLACK ELSE WHITE)
                   /\ WithinOfBorder(i, n) => out[i] = WHITE
            /\ (IsBlackSquare(in) /\ n = MaxErosionLevel) => BlackSet(out) = {}

\* C19 witness: two iterations left a black pixel, and whitened a pixel whose
\* 3x3 window was black.
C19_Witness ==
    /\ Ret /\ Ranp("erosion")
    /\ settings.erosionLevel = 2
    /\ BlackSet(WrittenBy("erosion")) # {}
    /\ \E i \in Idx(width, height) :
           /\ WindowBlack(i, 1, ReadBy("erosion"))
           /\ WrittenBy("erosion")[i] = WHITE

\* the black pixels of buf joined through black 4-neighbours to a black pixel
\* of the border
EdgeConnected(buf) ==
    {i \in BlackSet(buf) : Component(i, buf) \cap Border # {}}

\* C20: removeEdgeConnectedRegions whitens exactly the black pixels that are
\* 4-connected through black pixels to a black border pixel, every other
\* pixel keeps its value, and the buffer it was handed is not modified.
C20_EdgeRegionsExactly ==
    (Ret /\ Ranp("edge")) =>
        /\ \A i \in Idx(width, height) :
               WrittenBy("edge")[i] =
                   (IF i \in EdgeConnected(ReadBy("edge")) THEN WHITE
                    ELSE ReadBy("edge")[i])
        /\ argAfter[StepAt("edge")] = ReadBy("edge")

\* C20 witness: a black pixel off the border was whitened, so it was reached
\* through a black neighbour, the output differs from the input, and the
\* input buffer still holds its black pixels.
C20_Witness ==
    /\ Ret /\ Ranp("edge")
    /\ \E i \in Idx(width, height) \ Border :
           /\ ReadBy("edge")[i] = BLACK
           /\ WrittenBy("edge")[i] = WHITE
    /\ \E j \in Idx(width, height) : WrittenBy("edge")[j] = WHITE /\ ReadBy("edge")[j] = WHITE
    /\ argAfter[StepAt("edge")] # WrittenBy("edge")

(***************************************************************************)
(* Properties of the palette kMeansQuantize returns.                       *)
(***************************************************************************)
\* the loop was left by `if (!changed) break`
LloydConverged ==
    /\ LloydDone
    /\ Len(lloyd.trail) >= 1
    /\ lloyd.trail[Len(lloyd.trail)] = PrevRound(Len(lloyd.trail))

\* the sample pixels assigned to palette entry i (assignment i - 1)
ClusterOf(i) == {n \in 1 .. Len(lloyd.sample) : lloyd.assignments[n] = i - 1}

RECURSIVE ChannelSum(_, _)
ChannelSum(S, ch) ==
    IF S = {} THEN 0
    ELSE LET n == CHOOSE n \in S : TRUE
         IN  lloyd.sample[n][ch] + ChannelSum(S \ {n}, ch)

\* the rounded channel-wise mean of a non-empty cluster
ClusterMean(S) ==
    RGB(RoundDiv(ChannelSum(S, "r"), Cardinality(S)),
        RoundDiv(ChannelSum(S, "g"), Cardinality(S)),
        RoundDiv(ChannelSum(S, "b"), Cardinality(S)))

\* C21: whenever kMeansQuantize stops because the assignments stopped
\* changing, every palette entry with at least one sample pixel assigned to
\* it equals the rounded channel-wise mean of the sample pixels assigned to
\* it, for every k >= 1.
C21_PaletteIsClusterMean ==
    LloydConverged =>
        \A i \in 1 .. Len(lloyd.centroids) :
            ClusterOf(i) # {} => lloyd.centroids[i] = ClusterMean(ClusterOf(i))

(***************************************************************************)
(* Properties of the per-colour masks of processMulticolor.                *)
(***************************************************************************)
\* every colour of the sorted palette has had its mask built
MasksBuilt == mpc = "ret" /\ Len(mcMasks) = Len(sortedPalette)

\* the colours in whose mask pixel i is black
BlackIn(i) == {c \in 1 .. Len(mcMasks) : mcMasks[c][i] = BLACK}

\* C22: in Multicolor mode every pixel with assignment # -1 is black in
\* exactly one colour's mask, and that colour equals the palette colour the
\* pixel was assigned to, also when the palette holds duplicate colours;
\* every pixel with assignment -1 is white in all masks.
C22_MasksPartition ==
    MasksBuilt =>
        \A i \in 1 .. Len(mcAssignments) :
            IF mcAssignments[i] # -1
            THEN /\ Cardinality(BlackIn(i)) = 1
                 /\ \A c \in BlackIn(i) : sortedPalette[c] = palette[mcAssignments[i] + 1]
                 /\ \A c \in 1 .. Len(mcMasks) : mcMasks[c][i] \in {BLACK, WHITE}
            ELSE \A c \in 1 .. Len(mcMasks) : mcMasks[c][i] = WHITE

\* C22 witness: convert in multicolor mode built the masks for a palette
\* with a duplicate colour from an image with a transparent and an opaque
\* pixel; the opaque pixel is black in one of the two masks.
C22_Witness ==
    /\ MasksBuilt
    /\ cvpc = "ret"
    /\ Len(palette) = 2 /\ palette[1] = palette[2]
    /\ \E i, j \in 1 .. Len(mcAssignments) :
           /\ mcAssignments[i] = -1
           /\ mcAssignments[j] # -1
           /\ BlackIn(j) # {}

(***************************************************************************)
(* Properties of processSilhouette.                                        *)
(***************************************************************************)
SilhouetteTraced == cvpc \in {"ret", "thrown"} /\ cvSettings.mode = "silhouette"

AnyCleanupOption ==
    \/ cvSettings.invert
    \/ cvSettings.erosionLevel > 0
    \/ cvSettings.removeEdgeRegions
    \/ cvSettings.minRegionSize > 0

\* C23: in Silhouette mode the cleanup pipeline runs if and only if at least
\* one of invert, erosionLevel > 0, removeEdgeRegions, minRegionSize > 0 is
\* set; the tracer is then called with threshold 128, and otherwise it is
\* called on the plain grayscale image with the configured threshold (128
\* when none is configured).
C23_CleanupIffOption ==
    SilhouetteTraced =>
        /\ (silTraced.steps # <<>>) <=> AnyCleanupOption
        /\ AnyCleanupOption =>
               /\ silTraced.steps[1] = "threshold"
               /\ cvOpts[1].threshold = 128
        /\ ~AnyCleanupOption =>
               /\ silTraced.pixels = silTraced.gray
               /\ cvOpts[1].threshold =
                      (IF cvSettings.threshold = <<>> THEN 128 ELSE cvSettings.threshold[1])

\* C23 witness: only removeEdgeRegions is set, with a configured threshold of
\* 255; the pipeline ran threshold and edge removal and the tracer got 128.
C23_Witness ==
    /\ SilhouetteTraced
    /\ cvSettings.removeEdgeRegions /\ ~cvSettings.invert
    /\ cvSettings.erosionLevel = 0 /\ cvSettings.minRegionSize = 0
    /\ cvSettings.threshold = <<MaxThreshold>>
    /\ silTraced.steps = <<"threshold", "edge">>
    /\ silTraced.pixels # silTraced.gray
    /\ cvOpts[1].threshold = 128

(***************************************************************************)
(* Properties of smoothPath.                                               *)
(***************************************************************************)
SmoothRet == smooth # <<>> /\ smooth.pc = "ret"

\* the path `smoothed` that round r started from
BeforeRound(r) ==
    IF r = 1 THEN [scale |-> 1, points |-> smooth.points] ELSE smooth.rounds[r - 1]

\* point q of a path at scale `scale` is the original point p
SamePoint(q, scale, p) == q.x = scale * p.x /\ q.y = scale * p.y

\* C25: smoothPath on a path of n >= 3 points with i >= 1 iterations keeps the
\* original first and last points at the ends of the result after every
\* round and strictly increases the point count each round (a round maps m
\* points to 2m points); paths of 2 or fewer points and iterations <= 0 are
\* returned unchanged.
C25_SmoothKeepsEndsAndGrows ==
    SmoothRet =>
        LET n == Len(smooth.points)
        IN  IF n >= 3 /\ smooth.iterations >= 1
            THEN /\ Len(smooth.rounds) = smooth.iterations
                 /\ smooth.result = smooth.rounds[smooth.iterations]
                 /\ \A r \in 1 .. Len(smooth.rounds) :
                      LET now == smooth.rounds[r]
                          m   == Len(BeforeRound(r).points)
                      IN  /\ Len(now.points) = 2 * m
                          /\ Len(now.points) > m
                          /\ SamePoint(now.points[1], now.scale, smooth.points[1])
                          /\ SamePoint(now.points[Len(now.points)], now.scale,
                                       smooth.points[n])
            ELSE smooth.result = [scale |-> 1, points |-> smooth.points]

\* C25 witness: two rounds on three points that are not on one line, 3 -> 6
\* -> 12 points, and the second point of the result is not an original one.
C25_Witness ==
    /\ SmoothRet
    /\ Len(smooth.points) = 3 /\ smooth.iterations = 2
    /\ smooth.points[1] # smooth.points[3]
    /\ smooth.points[1].y # smooth.points[2].y
    /\ Len(smooth.result.points) = 12
    /\ \A i \in 1 .. 3 :
           ~SamePoint(smooth.result.points[2], smooth.result.scale, smooth.points[i])

(***************************************************************************)
(* Properties of the area filter of the Jimp-based processMulticolor.      *)
(***************************************************************************)
JimpRet == jm # <<>> /\ jm.pc = "ret"

JimpMinArea == MinArea(jm.width, jm.height, jm.settings)

FracAtLeast(a, b) == a[1] * b[2] >= b[1] * a[2]

\* twice the enclosed area of a path by the shoelace formula, in units of
\* 1 / scale^2; 0 for fewer than 3 points
TwiceArea(path) ==
    LET n == Len(path.points)
        term(i) == LET j == IF i = n THEN 1 ELSE i + 1
                   IN  path.points[i].x * path.points[j].y
                       - path.points[j].x * path.points[i].y
        RECURSIVE Sum(_)
        Sum(i) == IF i = 0 THEN 0 ELSE Sum(i - 1) + term(i)
    IN  IF n < 3 THEN 0 ELSE IF Sum(n) < 0 THEN -Sum(n) ELSE Sum(n)

AreaOf(path) == Frac(TwiceArea(path), 2 * path.scale * path.scale)

\* the colour (1-based) a layer was made for
ColourOf(layer) == layer.id[2] + 1

RootAttr(svg, name) ==
    LET root == svg[CHOOSE i \in 1 .. Len(svg) : svg[i].tag = "svg"]
        at   == CHOOSE k \in 1 .. Len(root.attrs) : root.attrs[k].name = name
    IN  root.attrs[at].value

\* C26: the outputWidth and outputHeight in the stats of a conversion equal
\* the aspect-corrected physical width and height written into the
\* width/height attributes of the SVG root element of the same conversion
\* (compared as the attributes are written: four decimals and the unit).
C26_StatsMatchSvgSize ==
    CvRet =>
        /\ RootAttr(cvResult.svg, N_WIDTH) =
               toFixed4(cvResult.stats.outputWidth) \o UnitText(cvSettings.unit)
        /\ RootAttr(cvResult.svg, N_HEIGHT) =
               toFixed4(cvResult.stats.outputHeight) \o UnitText(cvSettings.unit)

(***************************************************************************)
(* Properties of the useHistory hook.                                      *)
(***************************************************************************)
\* the call before the last one, and the last one
CallBeforeLast == hist.trail[1]
LastCall == hist.trail[Len(hist.trail)]

\* C27: after any sequence of setState, undo, redo and reset calls and for
\* any non-negative maxHistoryLength, the number of stored past states
\* (historyLength) never exceeds maxHistoryLength.
C27_HistoryLengthBounded ==
    hist # <<>> => Len(hist.past) <= hist.maxHistoryLength

\* C28: undo immediately followed by redo (when canUndo holds) and redo
\* immediately followed by undo (when canRedo holds) each restore past,
\* present and future exactly to their values before the pair of calls.
C28_UndoRedoRoundTrip ==
    (hist # <<>> /\ Len(hist.trail) = 2) =>
        /\ (/\ CallBeforeLast.op = "undo" /\ LastCall.op = "redo"
            /\ Len(CallBeforeLast.before.past) > 0)
               => HistoryOf(hist) = CallBeforeLast.before
        /\ (/\ CallBeforeLast.op = "redo" /\ LastCall.op = "undo"
            /\ Len(CallBeforeLast.before.future) > 0)
               => HistoryOf(hist) = CallBeforeLast.before

\* C28 witness: redo then undo with something to redo, and the redo had
\* changed all three parts.
C28_Witness ==
    /\ hist # <<>> /\ Len(hist.trail) = 2
    /\ CallBeforeLast.op = "redo" /\ LastCall.op = "undo"
    /\ Len(CallBeforeLast.before.future) > 0
    /\ LastCall.before.past # CallBeforeLast.before.past
    /\ LastCall.before.present # CallBeforeLast.before.present
    /\ LastCall.before.future # CallBeforeLast.before.future
    /\ HistoryOf(hist) = CallBeforeLast.before

\* C29: a setState whose resolved value differs from the present empties the
\* redo stack (canRedo becomes false) and makes the previous present the
\* most recent past entry, while a setState whose resolved value is equal to
\* the present leaves past, present and future unchanged.
C29_SetStateClearsRedo ==
    (hist # <<>> /\ Len(hist.trail) >= 1 /\ LastCall.op = "setState") =>
        IF LastCall.resolved # LastCall.before.present
        THEN /\ hist.future = <<>>
             /\ Len(hist.past) > 0
             /\ hist.past[Len(hist.past)] = LastCall.before.present
        ELSE HistoryOf(hist) = LastCall.before

(***************************************************************************)
(* Properties of the frontend App.                                         *)
(***************************************************************************)
\* C30: once a new image has been selected, the displayed SVG, layers and
\* stats stay empty until a conversion started for that image completes: a
\* response of a conversion started for a previously selected image never
\* populates svgData or sets conversionStatus to success.
C30_NoStaleResult ==
    app # <<>> =>
        /\ app.svgData.raw \in {NoFile, app.originalImage.file}
        /\ \A i \in 1 .. Len(app.svgData.layers) :
               app.svgData.layers[i].of = app.originalImage.file
        /\ app.stats \in {NoFile, app.originalImage.file}
        /\ app.conversionStatus = "success" => app.svgData.raw = app.originalImage.file

====
